---- MODULE Spec2Model ----
(***************************************************************************)
(* Model of the provider-routing layer of mcp-web-search:                  *)
(* web_search.search_manager.SearchManager, the configuration table it     *)
(* resolves at construction (web_search.config) and the provider           *)
(* capability it drives (web_search.providers).                            *)
(*                                                                         *)
(* Python values are modelled as follows.                                  *)
(*   Optional[T]      a set with at most one element: None is {}, and a    *)
(*                    present value v is {v}.                              *)
(*   SearchProvider   the string value of the enum member.                 *)
(*   dict             a function, or a sequence of <<key, value>> pairs    *)
(*                    when insertion order matters.                        *)
(*   exceptions       a record [type, msg]; str(e) is its msg.             *)
(*                                                                         *)
(* Coroutines run on one asyncio event loop: a step of the model runs a    *)
(* task from one suspension to the next, `ready` is the loop's FIFO of     *)
(* callbacks, and a task suspends only on an outbound request.             *)
(***************************************************************************)
EXTENDS Integers, Sequences, FiniteSets, TLC

\* ------------------------------------------------------------------------
\* Bounds of the model
\* ------------------------------------------------------------------------
\* length of the providers list handed to multi_provider_search
MaxProviders == 2

\* ------------------------------------------------------------------------
\* Optional values
\* ------------------------------------------------------------------------
None == {}
Some(x) == {x}
Get(o) == CHOOSE x \in o : TRUE

\* ------------------------------------------------------------------------
\* search_types.SearchProvider, in definition order
\* ------------------------------------------------------------------------
SERPAPI == "serpapi"
PERPLEXITY == "perplexity"
DUCKDUCKGO == "duckduckgo"
TAVILY == "tavily"
CLAUDE == "claude"

\* iteration order of `for provider in SearchProvider`
SearchProviderMembers == <<SERPAPI, PERPLEXITY, DUCKDUCKGO, TAVILY, CLAUDE>>

SearchProvider == {SearchProviderMembers[i] : i \in 1..Len(SearchProviderMembers)}

\* ------------------------------------------------------------------------
\* config.py: the per-provider settings classes
\* ------------------------------------------------------------------------
\* values an API-key environment variable can leave in api_key:
\* unset (None), set to the empty string, set to a key
ApiKeyValues == {None, Some(""), Some("k")}

\* bool(x) of an Optional[str]
BoolStr(o) == o # None /\ Get(o) # ""

\* bool(x) / `if x:` of an Optional[int]
BoolInt(o) == o # None /\ Get(o) # 0

DefaultMaxResults == 10
DefaultTimeout == 30

\* config_class() of load_config_from_environment: the settings instance of
\* one provider given what the environment supplies for its fields.
\* DuckDuckGoConfig.api_key has no environment alias and is always None.
load_config_from_environment(provider, key, maxres) ==
    [ provider    |-> provider,
      api_key     |-> IF provider = DUCKDUCKGO THEN None ELSE key,
      max_results |-> maxres,
      timeout     |-> DefaultTimeout ]

\* load_all_provider_configs(None): one configuration per enum member
load_all_provider_configs(keys, maxres) ==
    [ p \in SearchProvider |-> load_config_from_environment(p, keys[p], maxres[p]) ]

\* ------------------------------------------------------------------------
\* config.py: validation of the numeric fields
\* ------------------------------------------------------------------------
\* Field(default=10, ge=1, le=100) and Field(default=30, ge=1, le=300)
MaxResultsGe == 1
MaxResultsLe == 100
TimeoutGe == 1
TimeoutLe == 300

\* an environment value is a string, here the sequence of its characters
Digits == <<"0", "1", "2", "3", "4", "5", "6", "7", "8", "9">>

IsDigit(ch) == \E d \in 1..Len(Digits) : Digits[d] = ch

DigitValue(ch) == (CHOOSE d \in 1..Len(Digits) : Digits[d] = ch) - 1

\* the number a string of digits writes
RECURSIVE ParseDigits(_)
ParseDigits(str) ==
    IF str = <<>> THEN 0
    ELSE 10 * ParseDigits(SubSeq(str, 1, Len(str) - 1)) + DigitValue(str[Len(str)])

\* coercion of an environment string to int: Some(n) for an optionally
\* signed string of digits, None for anything else
IntCoerce(str) ==
    LET body == IF str # <<>> /\ str[1] = "-" THEN Tail(str) ELSE str
    IN  IF body = <<>> \/ \E i \in 1..Len(body) : ~IsDigit(body[i]) THEN None
        ELSE IF str[1] = "-" THEN Some(0 - ParseDigits(body))
        ELSE Some(ParseDigits(body))

\* mutant of FieldInt: a value out of range is clamped into the range
FieldIntClamped(supplied, default, ge, le) ==
    IF supplied = None THEN [ok |-> TRUE, value |-> default, error |-> ""]
    ELSE [ok |-> TRUE, error |-> "",
          value |-> IF Get(supplied) < ge THEN ge
                    ELSE IF Get(supplied) > le THEN le ELSE Get(supplied)]

\* validation of an int field declared Field(default, ge, le) against the
\* value supplied for it (None: nothing supplied, the default is taken)
FieldInt(supplied, default, ge, le) ==
    IF supplied = None THEN [ok |-> TRUE, value |-> default, error |-> ""]
    ELSE IF Get(supplied) < ge
    THEN [ok |-> FALSE, value |-> default, error |-> "greater_than_equal"]
    ELSE IF Get(supplied) > le
    THEN [ok |-> FALSE, value |-> default, error |-> "less_than_equal"]
    ELSE [ok |-> TRUE, value |-> Get(supplied), error |-> ""]

\* the same field read from the environment: the string is coerced first
\* (None: the variable is unset)
FieldEnv(env, default, ge, le) ==
    IF env = None THEN FieldInt(None, default, ge, le)
    ELSE IF IntCoerce(Get(env)) = None
    THEN [ok |-> FALSE, value |-> default, error |-> "int_parsing"]
    ELSE FieldInt(IntCoerce(Get(env)), default, ge, le)

\* the outcome of constructing a model from its validated fields: the
\* instance, or a ValidationError naming the fields that failed
Construct(fields, m, t) ==
    IF m.ok /\ t.ok
    THEN [ outcome |-> "ok",
           config  |-> Some([fields EXCEPT !.max_results = m.value,
                                           !.timeout = t.value]),
           errors  |-> {} ]
    ELSE [ outcome |-> "ValidationError",
           config  |-> None,
           errors  |-> (IF m.ok THEN {} ELSE {<<"max_results", m.error>>})
                       \cup (IF t.ok THEN {} ELSE {<<"timeout", t.error>>}) ]

\* Config(max_results=..., timeout=...)
Config(max_results, timeout) ==
    Construct([max_results |-> DefaultMaxResults, timeout |-> DefaultTimeout],
              FieldInt(max_results, DefaultMaxResults, MaxResultsGe, MaxResultsLe),
              FieldInt(timeout, DefaultTimeout, TimeoutGe, TimeoutLe))

\* config_class() of line 113 in an environment that supplies the strings
\* env_max and env_timeout for the class's max_results and timeout variables
config_class(provider, key, env_max, env_timeout) ==
    Construct(load_config_from_environment(provider, key, DefaultMaxResults),
              FieldEnv(env_max, DefaultMaxResults, MaxResultsGe, MaxResultsLe),
              FieldEnv(env_timeout, DefaultTimeout, TimeoutGe, TimeoutLe))

\* ------------------------------------------------------------------------
\* Inputs
\* ------------------------------------------------------------------------
Queries == {"q1", "q2"}

\* max_results arguments of SearchManager.search (None: not passed)
Overrides == {None, Some(0), Some(2), Some(5)}

\* max_results arguments of search_with_fallback / multi_provider_search
\* (plain int parameters)
MaxResultsArgs == {2, 5}

\* provider arguments of SearchManager.search (None: use the default)
SearchTargets == {None, Some(SERPAPI)}

\* identities that appear in the lists handed to multi_provider_search
ListedProviders == {DUCKDUCKGO, SERPAPI, CLAUDE}

\* all sequences over S of length at most n
SeqUpTo(S, n) == UNION {[1..k -> S] : k \in 0..n}

\* every integer kind of max_results argument a caller of search can pass
WideOverrides ==
    Overrides \cup {Some(0 - 1), Some(1), Some(100), Some(101)}

\* every provider argument of search
AllTargets == {None} \cup {Some(p) : p \in SearchProvider}

\* environments the manager is constructed in: the API key each keyed
\* provider's variable supplies
Environments ==
    { [p \in SearchProvider |-> None],
      [p \in SearchProvider |-> IF p = SERPAPI THEN Some("k")
                                ELSE IF p = TAVILY THEN Some("") ELSE None],
      [p \in SearchProvider |-> IF p = DUCKDUCKGO THEN None ELSE Some("k")] }

\* ------------------------------------------------------------------------
\* Provider capability (providers/*.py)
\* ------------------------------------------------------------------------
\* what the backend does with one outbound request
NetOutcomes == {"ok", "timeout"}

\* ... and with the payloads that carry no result item
Payloads == NetOutcomes \cup {"empty"}

\* the raw results a backend payload carries
RawResults == <<"r1", "r2", "r3">>

Min(a, b) == IF a < b THEN a ELSE b
Max(a, b) == IF a > b THEN a ELSE b

\* Python's seq[:n]
PySlice(seq, n) ==
    IF n >= 0 THEN SubSeq(seq, 1, Min(n, Len(seq)))
    ELSE SubSeq(seq, 1, Max(Len(seq) + n, 0))

NoMetadata == [error |-> None, attempted_providers |-> None]

\* BaseSearchProvider._create_response
_create_response(config, query, results) ==
    [ query    |-> query,
      provider |-> config.provider,
      results  |-> results,
      metadata |-> NoMetadata ]

\* the ValueError of _validate_config
MissingKeyError(provider) ==
    [ type |-> "ValueError",
      msg  |-> CASE provider = SERPAPI    -> "SerpAPI requires an API key"
                 [] provider = PERPLEXITY -> "Perplexity API requires an API key"
                 [] provider = TAVILY     -> "Tavily API requires an API key"
                 [] OTHER                 -> "Claude API requires an API key" ]

\* the Exception of BaseSearchProvider._make_request / _make_post_request
TransportError(net) ==
    [ type |-> "Exception", msg |-> "Request timeout" ]

\* mutant of _validate_config: only an absent key is refused
_validate_configNotNone(config) ==
    config.provider = DUCKDUCKGO \/ config.api_key # None

\* _validate_config of the keyed providers; DuckDuckGoProvider's returns True
_validate_config(config) ==
    config.provider = DUCKDUCKGO \/ BoolStr(config.api_key)

\* What provider_class(config).search(query) can do before it first
\* suspends: "raise" at once, or issue its outbound "request".
\* A shipped keyed provider raises iff _validate_config fails; a substituted
\* capability (PROVIDERS patched, as the tests do) may do either.
\* The two consecutive requests of DuckDuckGoProvider.search are taken as one
\* suspension.
CapabilityStart(cls, config) ==
    IF cls = "shipped"
    THEN IF _validate_config(config) THEN {"request"} ELSE {"raise"}
    ELSE {"request", "raise"}

\* the error of an immediate raise
StartError(cls, config) ==
    IF cls = "shipped" THEN MissingKeyError(config.provider)
    ELSE [type |-> "Exception", msg |-> "Provider failed"]

\* mutant of Swallowing: DuckDuckGoProvider lets the failure of its backend
\* calls out
SwallowingClaudeOnly == {CLAUDE}

\* the shipped providers that catch the failure of their own backend call:
\* DuckDuckGoProvider's helpers return [] (lines 107-109, 162-164) and
\* ClaudeProvider.search returns a fallback response (lines 78-98)
Swallowing == {DUCKDUCKGO, CLAUDE}

\* the provider's search raises once resumed with the backend's outcome
CapabilityRaises(cls, config, net) ==
    /\ net = "timeout"
    /\ ~(cls = "shipped" /\ config.provider \in Swallowing)

\* what the provider parses out of a payload, before it truncates:
\* "ok" is a payload carrying RawResults, "empty" one carrying no result
\* item (PerplexityProvider then builds one summary result from the answer
\* text, ClaudeProvider a default result)
Parsed(config, net) ==
    IF net = "ok" THEN RawResults
    ELSE IF net = "empty" /\ config.provider = PERPLEXITY THEN <<"summary">>
    ELSE IF net = "empty" /\ config.provider = CLAUDE THEN <<"default">>
    ELSE <<>>

\* the results a provider returns for what it parsed: every _parse_results
\* ends in results[: self.config.max_results], except that
\* PerplexityProvider returns its summary result as it is (lines 99-110)
Truncate(config, net, parsed) ==
    IF net = "empty" /\ config.provider = PERPLEXITY THEN parsed
    ELSE PySlice(parsed, config.max_results)

\* the response of a search that does not raise
CapabilityResponse(config, query, net) ==
    IF net = "timeout" /\ config.provider = CLAUDE
    THEN [ _create_response(config, query, <<"fallback">>)
             EXCEPT !.metadata.error = Some(TransportError(net).msg) ]
    ELSE _create_response(config, query, Truncate(config, net, Parsed(config, net)))

\* ------------------------------------------------------------------------
\* State
\* ------------------------------------------------------------------------
VARIABLES
    default_provider,   \* SearchManager.default_provider
    configs,            \* SearchManager._configs
    constructed,        \* history: _configs as __init__ left it
    PROVIDERS,          \* SearchManager.PROVIDERS: the capability classes
    available,          \* Optional: last value returned by get_available_providers
    fallback_chain,     \* Optional: last value returned by get_fallback_chain
    call,               \* per caller: its current (or last) call on the manager
    ready,              \* the event loop's FIFO of callbacks ready to run
    tool,               \* per caller: the server tool it is in, or was in last
    settings,           \* Optional: outcome of the last configuration construction
    environ,            \* os.environ: what each provider's API-key variable holds
    clock               \* the loop's time, and the times of the requests it waits for

vars == <<default_provider, configs, constructed, PROVIDERS, available,
          fallback_chain, call, ready, tool, settings, environ, clock>>

\* the tasks that call the manager
Callers == {"c1", "c2"}

\* ------------------------------------------------------------------------
\* SearchManager.get_available_providers / get_fallback_chain
\* ------------------------------------------------------------------------
\* mutant of ProviderStatus: an empty key counts as a key
ProviderStatusNotNone(cfgs, provider) ==
    IF provider = DUCKDUCKGO THEN TRUE ELSE cfgs[provider].api_key # None

\* mutant of ProviderStatus: duckduckgo needs a key like the others
ProviderStatusKeyed(cfgs, provider) == BoolStr(cfgs[provider].api_key)

\* status[provider.value] of get_available_providers
ProviderStatus(cfgs, provider) ==
    IF provider = DUCKDUCKGO THEN TRUE ELSE BoolStr(cfgs[provider].api_key)

get_available_providers(cfgs) ==
    [ p \in SearchProvider |-> ProviderStatus(cfgs, p) ]

\* mutant of fallback_order: the list leaves claude out
fallback_orderNoClaude == <<DUCKDUCKGO, SERPAPI, PERPLEXITY, TAVILY>>

\* mutant of fallback_order: the enum's definition order
fallback_orderEnum == SearchProviderMembers

\* the literal fallback_order list of get_fallback_chain
fallback_order == <<DUCKDUCKGO, SERPAPI, PERPLEXITY, TAVILY, CLAUDE>>

\* mutant of get_fallback_chain: the manager's default provider, when it is
\* available, is moved to the head of the chain
get_fallback_chainDefaultFirst(cfgs) ==
    LET avail == get_available_providers(cfgs)
        Keep(p) == IF p \in DOMAIN avail THEN avail[p] ELSE FALSE
        Other(p) == Keep(p) /\ p # default_provider
    IN  IF Keep(default_provider)
        THEN <<default_provider>> \o SelectSeq(fallback_order, Other)
        ELSE SelectSeq(fallback_order, Keep)

get_fallback_chain(cfgs) ==
    LET avail == get_available_providers(cfgs)
        Keep(p) == IF p \in DOMAIN avail THEN avail[p] ELSE FALSE
    IN  SelectSeq(fallback_order, Keep)

GetAvailableProviders ==
    /\ available' = Some(get_available_providers(configs))
    /\ UNCHANGED <<default_provider, configs, constructed, PROVIDERS,
                   fallback_chain, call, ready>>

GetFallbackChain ==
    /\ fallback_chain' = Some(get_fallback_chain(configs))
    /\ UNCHANGED <<default_provider, configs, constructed, PROVIDERS,
                   available, call, ready>>

\* ------------------------------------------------------------------------
\* SearchManager.search
\* ------------------------------------------------------------------------
\* line 61: `provider or self.default_provider`
ResolveProvider(dflt, provider) == IF provider # None THEN Get(provider) ELSE dflt

\* mutant of BindConfig: no copy is taken, the assignment of line 68 lands
\* on the stored configuration
BindConfigAliased(cfgs, search_provider, max_results) ==
    LET config == IF BoolInt(max_results)
                  THEN [cfgs[search_provider] EXCEPT !.max_results = Get(max_results)]
                  ELSE cfgs[search_provider]
    IN  [ config |-> config,
          stored |-> [cfgs EXCEPT ![search_provider] = config] ]

\* mutant of BindConfig: the override is dropped
BindConfigNoOverride(cfgs, search_provider, max_results) ==
    [ config |-> cfgs[search_provider], stored |-> cfgs ]

\* lines 64-68: the configuration bound to the provider and the table the
\* manager is left with.  model_copy() gives the call an object of its own,
\* so the assignment of line 68 lands on the copy.
BindConfig(cfgs, search_provider, max_results) ==
    [ config |-> IF BoolInt(max_results)
                 THEN [cfgs[search_provider] EXCEPT !.max_results = Get(max_results)]
                 ELSE cfgs[search_provider],
      stored |-> cfgs ]

\* lines 61-73: resolve the identity, bind the configuration, construct the
\* provider around it and enter its client
SearchEnter(dflt, cfgs, query, provider, max_results) ==
    LET search_provider == ResolveProvider(dflt, provider)
    IN  [ query       |-> query,
          provider    |-> search_provider,
          max_results |-> max_results,
          config      |-> BindConfig(cfgs, search_provider, max_results).config,
          client      |-> "open",
          requested   |-> FALSE,
          pc          |-> "entered",
          net         |-> None,
          response    |-> None,
          error       |-> None ]

\* the table after a search on `provider` was entered
StoredAfter(dflt, cfgs, provider, max_results) ==
    BindConfig(cfgs, ResolveProvider(dflt, provider), max_results).stored

\* the provider's search suspends on its outbound request
Requesting(s) == [s EXCEPT !.requested = TRUE, !.pc = "awaiting"]

\* mutant of Raised: the manager wraps the provider's error in one of its own
RaisedTranslated(s, e) ==
    [s EXCEPT !.client = "closed", !.pc = "raised",
              !.error = Some([type |-> "SearchError", msg |-> e.msg])]

\* mutant of Raised: the client is closed on the success path only
RaisedLeaking(s, e) == [s EXCEPT !.pc = "raised", !.error = Some(e)]

\* lines 73-74 left by an exception: __aexit__ closes the client
Raised(s, e) == [s EXCEPT !.client = "closed", !.pc = "raised", !.error = Some(e)]

\* line 74 returning the provider's response through __aexit__
Returned(s, r) == [s EXCEPT !.client = "closed", !.pc = "returned", !.response = Some(r)]

\* the search resumed with the backend's outcome
SearchResume(cls, s, net) ==
    IF CapabilityRaises(cls, s.config, net)
    THEN Raised(s, TransportError(net))
    ELSE Returned(s, CapabilityResponse(s.config, s.query, net))

\* the search up to its first suspension, for start behaviour b
SearchStart(cls, s, b) ==
    IF b = "raise" THEN Raised(s, StartError(cls, s.config)) ELSE Requesting(s)

\* ------------------------------------------------------------------------
\* Calls and the event loop
\* ------------------------------------------------------------------------
IdleCall ==
    [ kind |-> "idle", pc |-> "idle", query |-> "", max_results |-> None,
      chain |-> <<>>, providers |-> <<>>, tasks |-> <<>>, searches |-> <<>>,
      last_error |-> None, result |-> None, results |-> None, error |-> None ]

\* a caller can start a call when it is not suspended in one
Free(c) == call[c].pc # "awaiting"

\* loop callbacks
Callback(kind, caller, arg, net) ==
    [kind |-> kind, caller |-> caller, arg |-> arg, net |-> net]

\* the backend answers the outbound request of search s of caller c: the
\* loop's selector queues the wake-up of the task suspended on it
NetworkEvent(c, s, net) ==
    /\ s \in 1..Len(call[c].searches)
    /\ call[c].searches[s].pc = "awaiting"
    /\ call' = [call EXCEPT ![c].searches[s].pc = "woken",
                            ![c].searches[s].net = Some(net)]
    /\ ready' = Append(ready, Callback("wake", c, s, net))
    /\ UNCHANGED <<default_provider, configs, constructed, PROVIDERS,
                   available, fallback_chain>>

\* the callback at the head of the loop's queue is a wake-up of a call of
\* the given kind
Woken(kind) ==
    /\ ready # <<>>
    /\ Head(ready).kind = "wake"
    /\ call[Head(ready).caller].kind = kind

\* ------------------------------------------------------------------------
\* A caller awaits SearchManager.search
\* ------------------------------------------------------------------------
Search(c, query, provider, max_results) ==
    /\ Free(c)
    /\ LET s == SearchEnter(default_provider, configs, query, provider, max_results)
       IN  \E b \in CapabilityStart(PROVIDERS, s.config) :
              LET r == SearchStart(PROVIDERS, s, b)
              IN  call' = [call EXCEPT ![c] =
                     [IdleCall EXCEPT !.kind = "search",
                                      !.pc = IF b = "raise" THEN "raised" ELSE "awaiting",
                                      !.query = query, !.max_results = max_results,
                                      !.searches = <<r>>, !.error = r.error]]
    /\ configs' = StoredAfter(default_provider, configs, provider, max_results)
    /\ UNCHANGED <<default_provider, constructed, PROVIDERS, available,
                   fallback_chain, ready>>

\* the caller's task resumes: line 74 returns or raises to the caller
ResumeSearch ==
    /\ Woken("search")
    /\ LET c == Head(ready).caller
           s == SearchResume(PROVIDERS, call[c].searches[1], Head(ready).net)
       IN  call' = [call EXCEPT ![c].searches = <<s>>, ![c].pc = s.pc,
                                ![c].result = s.response, ![c].error = s.error]
    /\ ready' = Tail(ready)
    /\ UNCHANGED <<default_provider, configs, constructed, PROVIDERS,
                   available, fallback_chain>>

\* asyncio.CancelledError, which derives from BaseException
CancelledError == [type |-> "CancelledError", msg |-> ""]

\* the task of caller c is cancelled while its search is suspended: the
\* await of line 74 raises CancelledError, __aexit__ closes the client, and
\* the search raises it to the caller
Cancel(c) ==
    /\ call[c].kind = "search"
    /\ call[c].pc = "awaiting"
    /\ call[c].searches[1].pc = "awaiting"
    /\ LET s == Raised(call[c].searches[1], CancelledError)
       IN  call' = [call EXCEPT ![c].searches = <<s>>, ![c].pc = s.pc,
                                ![c].error = s.error]
    /\ UNCHANGED <<default_provider, configs, constructed, PROVIDERS,
                   available, fallback_chain, ready>>

\* ------------------------------------------------------------------------
\* SearchManager.search_with_fallback
\* ------------------------------------------------------------------------
\* mutant of LastErrorText: the text names the class of the last error
LastErrorTextClass(last_error) ==
    IF last_error = None THEN "None" ELSE Get(last_error).type

\* str(last_error) of line 147
LastErrorText(last_error) ==
    IF last_error = None THEN "None" ELSE Get(last_error).msg

\* mutant of ExhaustedResponse: the exhausted response lists the whole priority order as attempted
ExhaustedResponseUnfiltered(query, chain, last_error) ==
    [ query    |-> query,
      provider |-> DUCKDUCKGO,
      results  |-> <<>>,
      metadata |-> [ error |-> Some(<<"All providers failed. Last error: ",
                                      LastErrorText(last_error)>>),
                     attempted_providers |-> Some(fallback_order) ] ]

\* lines 142-150: the response returned when the loop runs off the chain
ExhaustedResponse(query, chain, last_error) ==
    [ query    |-> query,
      provider |-> DUCKDUCKGO,
      results  |-> <<>>,
      metadata |-> [ error |-> Some(<<"All providers failed. Last error: ",
                                      LastErrorText(last_error)>>),
                     attempted_providers |-> Some(chain) ] ]

\* mutant of ReturnsResponse: a candidate's response does not end the loop
ReturnsResponseNever(s) == FALSE

\* line 136: `return await self.search(...)` ends the loop with the
\* candidate's response
ReturnsResponse(s) == s.pc = "returned"

\* mutant of NextCandidate: the loop takes the failed candidate again
NextCandidateSame(k) == k

\* line 134: the candidate the loop takes after candidate k of the chain
NextCandidate(k) == k + 1

\* lines 134-150 from candidate k on, for the call f whose last_error is
\* `last`: candidates k..j-1 raise before they suspend, then either
\* candidate j suspends on its request or the chain is exhausted
FallbackLoop(f, k, last, cfgs) ==
    { g \in UNION { 
        LET attempt(i) == SearchEnter(default_provider, cfgs, f.query,
                                      Some(f.chain[i]), f.max_results)
            failed == [i \in 1..(j - k) |->
                         SearchStart(PROVIDERS, attempt(k + i - 1), "raise")]
            err == IF j > k THEN failed[j - k].error ELSE last
        IN  IF \E i \in k..(j - 1) :
                  "raise" \notin CapabilityStart(PROVIDERS, attempt(i).config)
            THEN {}
            ELSE IF j > Len(f.chain)
            THEN { [f EXCEPT !.pc = "returned", !.last_error = err,
                             !.searches = @ \o failed,
                             !.result = Some(ExhaustedResponse(f.query, f.chain, err))] }
            ELSE IF "request" \in CapabilityStart(PROVIDERS, attempt(j).config)
            THEN { [f EXCEPT !.pc = "awaiting", !.last_error = err,
                             !.searches = (@ \o failed)
                                          \o <<SearchStart(PROVIDERS, attempt(j), "request")>>] }
            ELSE {}
        : j \in k..(Len(f.chain) + 1) } : TRUE }

SearchWithFallback(c, query, max_results) ==
    /\ Free(c)
    /\ \E g \in FallbackLoop([IdleCall EXCEPT !.kind = "fallback", !.query = query,
                                              !.max_results = Some(max_results),
                                              !.chain = get_fallback_chain(configs)],
                             1, None, configs) :
          call' = [call EXCEPT ![c] = g]
    /\ UNCHANGED <<default_provider, configs, constructed, PROVIDERS,
                   available, fallback_chain, ready>>

\* the task resumes inside `await self.search(...)` of line 136
ResumeFallback ==
    /\ Woken("fallback")
    /\ LET c   == Head(ready).caller
           sid == Head(ready).arg
           s   == SearchResume(PROVIDERS, call[c].searches[sid], Head(ready).net)
           f   == [call[c] EXCEPT !.searches[sid] = s]
       IN  IF ReturnsResponse(s)
           THEN call' = [call EXCEPT ![c] = [f EXCEPT !.pc = "returned",
                                                      !.result = s.response]]
           ELSE \E g \in FallbackLoop(f, NextCandidate(sid), s.error, configs) :
                   call' = [call EXCEPT ![c] = g]
    /\ ready' = Tail(ready)
    /\ UNCHANGED <<default_provider, configs, constructed, PROVIDERS,
                   available, fallback_chain>>

\* ------------------------------------------------------------------------
\* SearchManager.multi_provider_search
\* ------------------------------------------------------------------------
ScheduledTask == [pc |-> "scheduled", sid |-> 0, ret |-> None]

\* mutant of ErrorEntry: the failure entry names the default provider
ErrorEntryDefaultProvider(query, provider, e) ==
    <<provider, [ query    |-> query,
                  provider |-> DUCKDUCKGO,
                  results  |-> <<>>,
                  metadata |-> [error |-> Some(e.msg), attempted_providers |-> None] ]>>

\* mutant of ErrorEntry: the failure entry carries a fixed text
ErrorEntryFixedText(query, provider, e) ==
    <<provider, [ query    |-> query,
                  provider |-> provider,
                  results  |-> <<>>,
                  metadata |-> [error |-> Some("Search failed"),
                                attempted_providers |-> None] ]>>

\* lines 94-99: the entry search_single_provider returns for a failed search
ErrorEntry(query, provider, e) ==
    <<provider, [ query    |-> query,
                  provider |-> provider,
                  results  |-> <<>>,
                  metadata |-> [error |-> Some(e.msg), attempted_providers |-> None] ]>>

\* lines 85-99: what search_single_provider returns for a finished search
TaskReturn(query, provider, s) ==
    IF s.pc = "returned" THEN <<provider, Get(s.response)>>
    ELSE ErrorEntry(query, provider, Get(s.error))

\* dict(pairs): keys in order of first occurrence, each with the value of
\* its last occurrence
RECURSIVE dict(_)
dict(pairs) ==
    IF pairs = <<>> THEN <<>>
    ELSE LET n    == Len(pairs)
             init == dict(SubSeq(pairs, 1, n - 1))
             key  == pairs[n][1]
         IN  IF \E i \in 1..Len(init) : init[i][1] = key
             THEN [i \in 1..Len(init) |->
                      IF init[i][1] = key THEN pairs[n] ELSE init[i]]
             ELSE Append(init, pairs[n])

\* mutant of GatherSchedule: the searches are awaited one after another, so
\* only the first is on the loop
GatherScheduleFirst(c, n) == <<Callback("start", c, 1, "")>>

\* the tasks asyncio.gather puts on the loop when it is called (line 103):
\* one per coroutine, in list order
GatherSchedule(c, n) == [i \in 1..n |-> Callback("start", c, i, "")]

\* mutant of MultiReturn: the pairs are collected as the searches finish,
\* the one whose backend answered first coming first
MultiReturnAsCompleted(m) ==
    LET n      == Len(m.tasks)
        At(i)  == clock.requests[m.tasks[i].sid].due * (n + 1) + i
        order  == CHOOSE f \in [1..n -> 1..n] :
                     \A a, b \in 1..n : a < b => At(f[a]) < At(f[b])
    IN  [m EXCEPT !.pc = "returned",
                  !.results = Some(dict([k \in 1..n |-> Get(m.tasks[order[k]].ret)]))]

\* mutant of MultiReturn: the pairs of the searches that failed are left out
MultiReturnSuccessful(m) ==
    LET Succeeded(t) == Get(t.ret)[2].metadata.error = None
        kept == SelectSeq(m.tasks, Succeeded)
    IN  [m EXCEPT !.pc = "returned",
                  !.results = Some(dict([i \in 1..Len(kept) |-> Get(kept[i].ret)]))]

\* lines 105-107
MultiReturn(m) ==
    [m EXCEPT !.pc = "returned",
              !.results = Some(dict([i \in 1..Len(m.tasks) |-> Get(m.tasks[i].ret)]))]

MultiProviderSearch(c, query, providers, max_results_per_provider) ==
    /\ Free(c)
    /\ LET m == [IdleCall EXCEPT !.kind = "multi", !.pc = "awaiting",
                                 !.query = query, !.providers = providers,
                                 !.max_results = Some(max_results_per_provider),
                                 !.tasks = [i \in 1..Len(providers) |-> ScheduledTask]]
       IN  IF providers = <<>>
           THEN call' = [call EXCEPT ![c] = MultiReturn(m)] /\ ready' = ready
           ELSE /\ call' = [call EXCEPT ![c] = m]
                /\ ready' = ready \o GatherSchedule(c, Len(providers))
    /\ UNCHANGED <<default_provider, configs, constructed, PROVIDERS,
                   available, fallback_chain>>

\* mutant of TaskDone: the gather's future is never resolved
TaskDoneNoWake(c, m, i, sid) ==
    [ call  |-> [m EXCEPT !.tasks[i] =
                    [pc |-> "done", sid |-> sid,
                     ret |-> Some(TaskReturn(m.query, m.providers[i], m.searches[sid]))]],
      queue |-> <<>> ]

\* task i of the gather finished with search s: when it was the last one,
\* the gather's future resolves and the awaiting call is queued to resume
TaskDone(c, m, i, sid) ==
    LET m2 == [m EXCEPT !.tasks[i] =
                  [pc |-> "done", sid |-> sid,
                   ret |-> Some(TaskReturn(m.query, m.providers[i], m.searches[sid]))]]
        all == \A j \in 1..Len(m2.tasks) : m2.tasks[j].pc = "done"
    IN  [ call  |-> m2,
          queue |-> IF all THEN <<Callback("gathered", c, 0, "")>> ELSE <<>> ]

\* first step of one search_single_provider task (lines 85-91)
StartTask ==
    /\ ready # <<>>
    /\ Head(ready).kind = "start"
    /\ LET c == Head(ready).caller
           i == Head(ready).arg
           m == call[c]
           s == SearchEnter(default_provider, configs, m.query,
                            Some(m.providers[i]), m.max_results)
           sid == Len(m.searches) + 1
       IN  /\ \E b \in CapabilityStart(PROVIDERS, s.config) :
                LET m1 == [m EXCEPT !.searches = Append(@, SearchStart(PROVIDERS, s, b))]
                    d  == TaskDone(c, m1, i, sid)
                IN  IF b = "raise"
                    THEN /\ call' = [call EXCEPT ![c] = d.call]
                         /\ ready' = Tail(ready) \o d.queue
                    ELSE /\ call' = [call EXCEPT ![c] =
                                [m1 EXCEPT !.tasks[i] =
                                    [pc |-> "awaiting", sid |-> sid, ret |-> None]]]
                         /\ ready' = Tail(ready)
           /\ configs' = StoredAfter(default_provider, configs,
                                     Some(m.providers[i]), m.max_results)
    /\ UNCHANGED <<default_provider, constructed, PROVIDERS, available,
                   fallback_chain>>

\* the task of search sid
TaskOf(m, sid) == CHOOSE i \in 1..Len(m.tasks) : m.tasks[i].sid = sid

\* mutant of ResumeTask: the searches of a call share one client, which the
\* first of them to finish closes
ResumeTaskSharedClient ==
    /\ Woken("multi")
    /\ LET c   == Head(ready).caller
           sid == Head(ready).arg
           m   == [call[c] EXCEPT !.searches[sid] =
                      SearchResume(PROVIDERS, @, Head(ready).net)]
           shared == [m EXCEPT !.searches =
                         [i \in 1..Len(m.searches) |->
                            [m.searches[i] EXCEPT !.client = "closed"]]]
           d   == TaskDone(c, shared, TaskOf(shared, sid), sid)
       IN  /\ call' = [call EXCEPT ![c] = d.call]
           /\ ready' = Tail(ready) \o d.queue
    /\ UNCHANGED <<default_provider, configs, constructed, PROVIDERS,
                   available, fallback_chain>>

\* a task resumes inside `await self.search(...)` of line 86
ResumeTask ==
    /\ Woken("multi")
    /\ LET c   == Head(ready).caller
           sid == Head(ready).arg
           m   == [call[c] EXCEPT !.searches[sid] =
                      SearchResume(PROVIDERS, @, Head(ready).net)]
           d   == TaskDone(c, m, TaskOf(m, sid), sid)
       IN  /\ call' = [call EXCEPT ![c] = d.call]
           /\ ready' = Tail(ready) \o d.queue
    /\ UNCHANGED <<default_provider, configs, constructed, PROVIDERS,
                   available, fallback_chain>>

\* the call resumes after `await asyncio.gather(*tasks)` (lines 103-107)
Gathered ==
    /\ ready # <<>>
    /\ Head(ready).kind = "gathered"
    /\ call' = [call EXCEPT ![Head(ready).caller] = MultiReturn(@)]
    /\ ready' = Tail(ready)
    /\ UNCHANGED <<default_provider, configs, constructed, PROVIDERS,
                   available, fallback_chain>>

\* ------------------------------------------------------------------------
\* Constructing configurations
\* ------------------------------------------------------------------------
\* strings the *_MAX_RESULTS and SEARCH_TIMEOUT variables are set to
\* (None: unset)
EnvMaxResults ==
    { None, Some(<<"0">>), Some(<<"1">>), Some(<<"2", "0">>), Some(<<"1", "0", "0">>),
      Some(<<"1", "0", "1">>), Some(<<"-", "5">>),
      Some(<<"i", "n", "v", "a", "l", "i", "d">>) }

EnvTimeouts ==
    { None, Some(<<"0">>), Some(<<"1">>), Some(<<"4", "5">>), Some(<<"3", "0", "0">>),
      Some(<<"3", "0", "1">>), Some(<<"5", "0", "0">>), Some(<<"4", "5", "s">>) }

\* keyword arguments given to Config(...) (None: not given)
CtorMaxResults == {None, Some(0 - 1), Some(0), Some(1), Some(20), Some(100), Some(101)}

CtorTimeouts == {None, Some(0), Some(1), Some(45), Some(300), Some(301)}

\* load_config_from_environment(provider) in an environment holding the
\* given strings
LoadConfigFromEnvironment(provider, key, env_max, env_timeout) ==
    /\ settings' = Some([ op       |-> "load_config_from_environment",
                          provider |-> provider,
                          supplied |-> [ api_key |-> key, max_results |-> env_max,
                                         timeout |-> env_timeout ],
                          result   |-> config_class(provider, key, env_max, env_timeout) ])
    /\ UNCHANGED <<default_provider, configs, constructed, PROVIDERS, available,
                   fallback_chain, call, ready, tool, environ, clock>>

\* mutant of load_all_provider_configs_env: a provider without an API key
\* gets no entry
load_all_provider_configs_keyed(providers, keys, env_max, env_timeout) ==
    LET list   == IF providers = None THEN SearchProviderMembers ELSE Get(providers)
        Keyed(p) == p = DUCKDUCKGO \/ BoolStr(keys[p])
        kept   == SelectSeq(list, Keyed)
        loaded == [i \in 1..Len(kept) |->
                     config_class(kept[i], keys[kept[i]], env_max[kept[i]], env_timeout)]
    IN  IF \E i \in 1..Len(kept) : loaded[i].outcome # "ok"
        THEN [outcome |-> "ValidationError", configs |-> None]
        ELSE [ outcome |-> "ok",
               configs |-> Some(dict([i \in 1..Len(kept) |->
                                        <<kept[i], Get(loaded[i].config)>>])) ]

\* load_all_provider_configs(providers) (lines 116-129) in an environment
\* holding the given API keys, *_MAX_RESULTS strings and SEARCH_TIMEOUT
\* string: the dict of the configurations, as <<identity, configuration>>
\* pairs in insertion order, or the ValidationError of the first
\* config_class() that fails
load_all_provider_configs_env(providers, keys, env_max, env_timeout) ==
    LET list   == IF providers = None THEN SearchProviderMembers ELSE Get(providers)
        loaded == [i \in 1..Len(list) |->
                     config_class(list[i], keys[list[i]], env_max[list[i]], env_timeout)]
    IN  IF \E i \in 1..Len(list) : loaded[i].outcome # "ok"
        THEN [outcome |-> "ValidationError", configs |-> None]
        ELSE [ outcome |-> "ok",
               configs |-> Some(dict([i \in 1..Len(list) |->
                                        <<list[i], Get(loaded[i].config)>>])) ]

\* lists of identities handed to load_all_provider_configs (None: not given)
RequestedProviders ==
    { None, Some(<<>>), Some(<<TAVILY>>), Some(<<SERPAPI, DUCKDUCKGO>>),
      Some(<<CLAUDE, SERPAPI, CLAUDE>>) }

\* what the environment holds for each provider's *_MAX_RESULTS variable
EnvMaxResultsByProvider ==
    { [p \in SearchProvider |-> None],
      [p \in SearchProvider |-> IF p = SERPAPI THEN Some(<<"2", "0">>) ELSE None],
      [p \in SearchProvider |-> IF p = SERPAPI THEN Some(<<"1", "0", "1">>) ELSE None],
      [p \in SearchProvider |-> IF p = CLAUDE THEN Some(<<"i", "n", "v", "a", "l", "i", "d">>)
                                ELSE Some(<<"1">>)] }

\* load_all_provider_configs(providers)
LoadAllProviderConfigs(providers, keys, env_max, env_timeout) ==
    /\ settings' = Some([ op        |-> "load_all_provider_configs",
                          providers |-> providers,
                          supplied  |-> [ api_key |-> keys, max_results |-> env_max,
                                          timeout |-> env_timeout ],
                          result    |-> load_all_provider_configs_env(
                                           providers, keys, env_max, env_timeout) ])
    /\ UNCHANGED <<default_provider, configs, constructed, PROVIDERS, available,
                   fallback_chain, call, ready, tool, environ, clock>>

\* Config(max_results=..., timeout=...)
NewConfig(max_results, timeout) ==
    /\ settings' = Some([ op       |-> "Config",
                          supplied |-> [max_results |-> max_results, timeout |-> timeout],
                          result   |-> Config(max_results, timeout) ])
    /\ UNCHANGED <<default_provider, configs, constructed, PROVIDERS, available,
                   fallback_chain, call, ready, tool, environ, clock>>

\* ------------------------------------------------------------------------
\* server.py: the tool functions
\* ------------------------------------------------------------------------
IdleTool ==
    [ name |-> "idle", pc |-> "idle", args |-> <<>>, invoked |-> FALSE,
      result |-> None, error |-> None ]

\* a step of the manager taken by a caller that is not inside a tool
Direct(A) == A /\ UNCHANGED <<tool, settings, environ, clock>>

\* the limits of lines 45, 96 and 167
ToolMaxResults == 50
ToolMaxResultsPerProvider == 20

\* mutant of Clamp: only the upper limit is applied
ClampUpperOnly(n, hi) == Min(n, hi)

\* max(1, min(n, hi))
Clamp(n, hi) == Max(1, Min(n, hi))

\* provider names a client sends, and str.lower() of each
ToolProviderNames == {"duckduckgo", "SerpAPI", "bing"}

\* the letters, for str.lower()
UpperCase ==
    <<"A", "B", "C", "D", "E", "F", "G", "H", "I", "J", "K", "L", "M",
      "N", "O", "P", "Q", "R", "S", "T", "U", "V", "W", "X", "Y", "Z">>

LowerCase ==
    <<"a", "b", "c", "d", "e", "f", "g", "h", "i", "j", "k", "l", "m",
      "n", "o", "p", "q", "r", "s", "t", "u", "v", "w", "x", "y", "z">>

\* str.lower() of one character
LowerChar(ch) ==
    IF \E i \in 1..Len(UpperCase) : UpperCase[i] = ch
    THEN LowerCase[CHOOSE i \in 1..Len(UpperCase) : UpperCase[i] = ch]
    ELSE ch

\* str.lower() of a string given as the sequence of its characters
LowerSeq(chars) == [i \in 1..Len(chars) |-> LowerChar(chars[i])]

\* the characters of every string that occurs as a provider name
Spelling ==
    "serpapi" :> <<"s", "e", "r", "p", "a", "p", "i">>
    @@ "perplexity" :> <<"p", "e", "r", "p", "l", "e", "x", "i", "t", "y">>
    @@ "duckduckgo" :> <<"d", "u", "c", "k", "d", "u", "c", "k", "g", "o">>
    @@ "tavily" :> <<"t", "a", "v", "i", "l", "y">>
    @@ "claude" :> <<"c", "l", "a", "u", "d", "e">>
    @@ "SerpAPI" :> <<"S", "e", "r", "p", "A", "P", "I">>
    @@ "DuckDuckGo" :> <<"D", "u", "c", "k", "D", "u", "c", "k", "G", "o">>
    @@ "DUCKDUCKGO" :> <<"D", "U", "C", "K", "D", "U", "C", "K", "G", "O">>
    @@ "bing" :> <<"b", "i", "n", "g">>
    @@ "Bing" :> <<"B", "i", "n", "g">>

\* mutant of Lower: the name is looked up as it was written
LowerAsWritten(name) == name

\* str.lower() on the names: each name with the string that its lower-cased
\* characters spell
lower ==
    [ name \in DOMAIN Spelling |->
        CHOOSE low \in DOMAIN Spelling : Spelling[low] = LowerSeq(Spelling[name]) ]

\* name.lower()
Lower(name) == lower[name]

\* SearchProvider(provider.lower()) raises ValueError
InvalidProvider(name) == Lower(name) \notin SearchProvider

\* integers a client sends as max_results / max_results_per_provider
ToolInts == {0 - 3, 0, 5, 21, 51}

\* the default of max_results_per_provider (line 135)
DefaultPerProvider == 5

\* the module's search_manager, which the tests also patch to None
Managers == {"manager", "None"}

\* attribute access on a search_manager patched to None
NoManagerError(attr) ==
    [ type |-> "AttributeError",
      msg  |-> <<"'NoneType' object has no attribute ", attr>> ]

\* the exception classes of the model that derive from Exception
ExceptionClasses == {"Exception", "ValueError", "AttributeError", "TypeError"}

\* mutant of Catches: the tools catch BaseException
CatchesBaseException(e) == e.type \in ExceptionClasses \cup {"CancelledError"}

\* mutant of Catches: the tools catch ValueError only
CatchesValueError(e) == e.type = "ValueError"

\* `except Exception` (lines 74, 124, 202, 227)
Catches(e) == e.type \in ExceptionClasses

\* the text each tool puts before str(e)
FailureText ==
    [ search_web              |-> "Search failed: ",
      search_with_fallback    |-> "Search with fallback failed: ",
      multi_provider_search   |-> "Multi-provider search failed: ",
      get_available_providers |-> "Failed to get provider status: " ]

\* the dict a tool returns from its except clause
ErrorResult(t, e) ==
    LET error == <<FailureText[t.name], e.msg>>
    IN  CASE t.name = "search_web" ->
               [error |-> error, query |-> t.args.query, provider |-> t.args.provider]
          [] t.name = "get_available_providers" -> [error |-> error]
          [] OTHER -> [error |-> error, query |-> t.args.query]

\* the response was built by search_with_fallback itself (search_manager.py
\* 142-150), not by a provider's _create_response
BuiltByManager(r) == r.metadata.attempted_providers # None

\* SearchResponse.total_results: _create_response sets it (base.py 46, taken
\* here at len(results)); the manager's own response leaves the default None
total_results(r) == IF BuiltByManager(r) THEN None ELSE Some(Len(r.results))

\* SearchResponse.search_time: every provider passes the time it measured;
\* the manager's own response leaves the default None
search_time(r) == IF BuiltByManager(r) THEN None ELSE Some("elapsed")

\* mutant of ResponseDict: a response that carries an error in its metadata
\* is reported in the failure shape
ResponseDictErrorLifted(r) ==
    IF r.metadata.error # None
    THEN [ error |-> Get(r.metadata.error), query |-> r.query ]
    ELSE [ query         |-> r.query,
           provider      |-> r.provider,
           total_results |-> total_results(r),
           search_time   |-> search_time(r),
           results       |-> r.results,
           metadata      |-> r.metadata ]

\* lines 55-72 and 105-122: a SearchResponse as a dict
ResponseDict(r) ==
    [ query         |-> r.query,
      provider      |-> r.provider,
      total_results |-> total_results(r),
      search_time   |-> search_time(r),
      results       |-> r.results,
      metadata      |-> r.metadata ]

\* lines 177-200: the dict of multi_provider_search
ResponsesDict(query, responses) ==
    [ query     |-> query,
      providers |-> [i \in 1..Len(responses) |->
                       <<responses[i][1], [ results  |-> responses[i][2].results,
                                            metadata |-> responses[i][2].metadata ]>>] ]

\* the tool returns a dict
ToolReturn(t, result) == [t EXCEPT !.pc = "returned", !.result = Some(result)]

\* an exception reaches the tool's try block: the except clause turns it
\* into a dict if it catches it, else it leaves the tool
ToolExcept(t, e) ==
    IF Catches(e) THEN ToolReturn(t, ErrorResult(t, e))
    ELSE [t EXCEPT !.pc = "raised", !.error = Some(e)]

\* the tool t, awaiting the manager call k, after a step of the loop
Surface(t, k) ==
    IF t.pc # "awaiting" THEN t
    ELSE IF k.pc = "raised" THEN ToolExcept(t, Get(k.error))
    ELSE IF k.pc = "returned"
    THEN ToolReturn(t, IF t.name = "multi_provider_search"
                       THEN ResponsesDict(t.args.query, Get(k.results))
                       ELSE ResponseDict(Get(k.result)))
    ELSE t

\* a step of the manager or of the loop while tools await
InTool(A) ==
    /\ A
    /\ tool' = [c \in Callers |-> Surface(tool[c], call'[c])]
    /\ UNCHANGED <<settings, environ, clock>>

\* a tool entered with the given arguments
Entered(name, args) ==
    [IdleTool EXCEPT !.name = name, !.pc = "awaiting", !.args = args]

\* the tool ends without calling the manager: the caller has no call on it
ToolEnds(c, t) ==
    /\ tool' = [tool EXCEPT ![c] = t]
    /\ call' = [call EXCEPT ![c] = IdleCall]
    /\ UNCHANGED <<default_provider, configs, constructed, PROVIDERS, available,
                   fallback_chain, ready, settings, environ, clock>>

\* the tool calls the manager with action A
ToolCalls(c, t, A) ==
    /\ A
    /\ tool' = [tool EXCEPT ![c] = Surface([t EXCEPT !.invoked = TRUE], call'[c])]
    /\ UNCHANGED <<settings, environ, clock>>

\* lines 18-79
ToolSearchWeb(c, mgr, query, provider, max_results) ==
    /\ Free(c)
    /\ LET t == Entered("search_web", [ query |-> query, provider |-> provider,
                                        max_results |-> max_results ])
       IN  IF InvalidProvider(provider)
           THEN ToolEnds(c, ToolReturn(t,
                   [error |-> <<"Invalid provider '", provider, "'. Available: ",
                                SearchProviderMembers>>]))
           ELSE IF mgr = "None"
           THEN ToolEnds(c, ToolExcept(t, NoManagerError("search")))
           ELSE ToolCalls(c, t, Search(c, query, Some(Lower(provider)),
                                       Some(Clamp(max_results, ToolMaxResults))))

\* lines 82-128
ToolSearchWithFallback(c, mgr, query, max_results) ==
    /\ Free(c)
    /\ LET t == Entered("search_with_fallback",
                        [query |-> query, max_results |-> max_results])
       IN  IF mgr = "None"
           THEN ToolEnds(c, ToolExcept(t, NoManagerError("search_with_fallback")))
           ELSE ToolCalls(c, t, SearchWithFallback(c, query,
                                                   Clamp(max_results, ToolMaxResults)))

\* mutant of ValidProviders: one unrecognized name rejects the whole list
ValidProvidersAllOrNothing(providers) ==
    LET names == IF providers = None THEN SearchProviderMembers ELSE Get(providers)
    IN  IF \E i \in 1..Len(names) : InvalidProvider(names[i]) THEN <<>>
        ELSE [i \in 1..Len(names) |-> Lower(names[i])]

\* lines 150-159: the identities of the names that are valid, in list order
\* (None: the argument was not given, every identity is taken)
ValidProviders(providers) ==
    LET names == IF providers = None THEN SearchProviderMembers ELSE Get(providers)
        Valid(name) == ~InvalidProvider(name)
        kept  == SelectSeq(names, Valid)
    IN  [i \in 1..Len(kept) |-> Lower(kept[i])]

\* lines 131-206
ToolMultiProviderSearch(c, mgr, query, providers, max_results_per_provider) ==
    /\ Free(c)
    /\ LET t == Entered("multi_provider_search",
                        [ query |-> query, providers |-> providers,
                          max_results_per_provider |-> max_results_per_provider ])
           search_providers == ValidProviders(providers)
       IN  IF search_providers = <<>>
           THEN ToolEnds(c, ToolReturn(t,
                   [error |-> <<"No valid providers specified. Available: ",
                                SearchProviderMembers>>]))
           ELSE IF mgr = "None"
           THEN ToolEnds(c, ToolExcept(t, NoManagerError("multi_provider_search")))
           ELSE ToolCalls(c, t, MultiProviderSearch(c, query, search_providers,
                             Clamp(max_results_per_provider, ToolMaxResultsPerProvider)))

\* lines 209-230
ToolGetAvailableProviders(c, mgr) ==
    /\ Free(c)
    /\ LET t == Entered("get_available_providers", <<>>)
           status == get_available_providers(configs)
       IN  IF mgr = "None"
           THEN ToolEnds(c, ToolExcept(t, NoManagerError("get_available_providers")))
           ELSE /\ available' = Some(status)
                /\ fallback_chain' = Some(get_fallback_chain(configs))
                /\ tool' = [tool EXCEPT ![c] = ToolReturn([t EXCEPT !.invoked = TRUE],
                       [ providers        |-> status,
                         default_provider |-> default_provider,
                         fallback_chain   |-> get_fallback_chain(configs),
                         total_available  |-> Cardinality({p \in SearchProvider : status[p]}) ])]
                /\ call' = [call EXCEPT ![c] = IdleCall]
                /\ UNCHANGED <<default_provider, configs, constructed, PROVIDERS,
                               ready, settings, environ, clock>>

\* ------------------------------------------------------------------------
\* Time
\* ------------------------------------------------------------------------
\* Time is counted in units of 50 ms.  Only waiting for a backend takes
\* time: the steps the loop runs between two suspensions take none.
\* clock.requests[s] holds, for search s of the timed call, when its
\* request was issued, how long the backend takes and when it answers.
IdleClock == [now |-> 0, started |-> None, finished |-> None, requests |-> <<>>]

\* how long a backend takes to answer a request: 50, 100 or 200 ms
Latencies == {1, 2, 4}

\* mutant of Due: the requests share one connection, which serves them one
\* after another
DueSerial(now, requests, latency) ==
    LET busy == {requests[i].due : i \in 1..Len(requests)} \cup {now}
    IN  (CHOOSE t \in busy : \A u \in busy : u <= t) + latency

\* when the request issued at `now` is answered: each provider instance
\* awaits its own client (base.py 14-16, 54), so the backend's latency is
\* all it waits for
Due(now, requests, latency) == now + latency

\* a caller awaits multi_provider_search at clock.now
TimedMultiProviderSearch(c, query, providers, max_results_per_provider) ==
    /\ clock.started = None
    /\ MultiProviderSearch(c, query, providers, max_results_per_provider)
    /\ clock' = [clock EXCEPT !.started = Some(clock.now),
                              !.finished = IF providers = <<>> THEN Some(clock.now)
                                           ELSE None]
    /\ UNCHANGED <<tool, settings, environ>>

\* the first step of a task: a request it issues is answered `latency` later
TimedStartTask(latency) ==
    /\ StartTask
    /\ LET c == Head(ready).caller
           s == call'[c].searches[Len(call'[c].searches)]
       IN  clock' = [clock EXCEPT !.requests = Append(@,
                        [ issued  |-> clock.now,
                          latency |-> IF s.requested THEN latency ELSE 0,
                          due     |-> IF s.requested
                                      THEN Due(clock.now, clock.requests, latency)
                                      ELSE clock.now ])]
    /\ UNCHANGED <<tool, settings, environ>>

\* the backend answers request s when its time has come
TimedNetworkEvent(c, s, net) ==
    /\ s \in 1..Len(clock.requests)
    /\ clock.requests[s].due = clock.now
    /\ Direct(NetworkEvent(c, s, net))

\* the loop has nothing to run and no answer has arrived: time passes
Tick(c) ==
    /\ ready = <<>>
    /\ \E s \in 1..Len(call[c].searches) : call[c].searches[s].pc = "awaiting"
    /\ \A s \in 1..Len(call[c].searches) :
          call[c].searches[s].pc = "awaiting" => clock.requests[s].due > clock.now
    /\ clock' = [clock EXCEPT !.now = @ + 1]
    /\ UNCHANGED <<default_provider, configs, constructed, PROVIDERS, available,
                   fallback_chain, call, ready, tool, settings, environ>>

\* the call resumes after the gather and returns at clock.now
TimedGathered ==
    /\ Gathered
    /\ clock' = [clock EXCEPT !.finished = Some(clock.now)]
    /\ UNCHANGED <<tool, settings, environ>>

\* ------------------------------------------------------------------------
\* Construction
\* ------------------------------------------------------------------------
Idle ==
    /\ available = None
    /\ fallback_chain = None
    /\ call = [c \in Callers |-> IdleCall]
    /\ ready = <<>>
    /\ tool = [c \in Callers |-> IdleTool]
    /\ settings = None
    /\ clock = IdleClock

\* SearchManager.__init__ in one of the listed environments
Init ==
    /\ default_provider \in {DUCKDUCKGO, TAVILY}
    /\ \E keys \in Environments :
          /\ environ = keys
          /\ configs = load_all_provider_configs(keys,
                           [p \in SearchProvider |-> DefaultMaxResults])
    /\ constructed = configs
    /\ PROVIDERS \in {"shipped", "substituted"}
    /\ Idle

Network ==
    Direct(\E c \in Callers, s \in 1..5, net \in NetOutcomes : NetworkEvent(c, s, net))

\* one search_with_fallback call at a time
NextFallback ==
    \/ Direct(\E q \in Queries, n \in MaxResultsArgs : SearchWithFallback("c1", q, n))
    \/ Network
    \/ Direct(ResumeFallback)

SpecFallback == Init /\ [][NextFallback]_vars

\* one multi_provider_search call at a time
NextMulti ==
    \/ Direct(\E q \in Queries, ps \in SeqUpTo(ListedProviders, MaxProviders),
                 n \in MaxResultsArgs : MultiProviderSearch("c1", q, ps, n))
    \/ Network
    \/ Direct(StartTask)
    \/ Direct(ResumeTask)
    \/ Direct(Gathered)

SpecMulti == Init /\ [][NextMulti]_vars

\* one multi_provider_search call against backends of different latencies
NextTimed ==
    \/ \E ps \in SeqUpTo(ListedProviders, MaxProviders) :
          TimedMultiProviderSearch("c1", "q1", ps, DefaultPerProvider)
    \/ \E latency \in Latencies : TimedStartTask(latency)
    \/ \E s \in 1..(MaxProviders + 1), net \in NetOutcomes : TimedNetworkEvent("c1", s, net)
    \/ Tick("c1")
    \/ Direct(ResumeTask)
    \/ TimedGathered

SpecTimed == Init /\ [][NextTimed]_vars

\* concurrent search calls
NextSearch ==
    \/ Direct(\E c \in Callers, q \in Queries, p \in SearchTargets, n \in Overrides :
                 Search(c, q, p, n))
    \/ Network
    \/ Direct(ResumeSearch)

SpecSearch == Init /\ [][NextSearch]_vars

\* every operation of the manager: caller c1 makes any call, caller c2
\* runs searches alongside
Next ==
    \/ Direct(GetAvailableProviders)
    \/ Direct(GetFallbackChain)
    \/ Direct(\E p \in SearchTargets, n \in {None, Some(5)} : Search("c1", "q1", p, n))
    \/ Direct(\E p \in SearchTargets, n \in {None, Some(2)} : Search("c2", "q2", p, n))
    \/ Direct(SearchWithFallback("c1", "q1", 5))
    \/ Direct(\E ps \in {<<SERPAPI>>, <<DUCKDUCKGO, SERPAPI>>} :
                 MultiProviderSearch("c1", "q1", ps, 2))
    \/ Network
    \/ Direct(ResumeSearch)
    \/ Direct(ResumeFallback)
    \/ Direct(StartTask)
    \/ Direct(ResumeTask)
    \/ Direct(Gathered)

Spec == Init /\ [][Next]_vars

\* SearchManager.__init__ in every environment: every combination of API
\* keys unset, empty or set
InitConfig ==
    /\ default_provider \in SearchProvider
    /\ \E keys \in [SearchProvider -> ApiKeyValues] :
          /\ environ = keys
          /\ configs = load_all_provider_configs(keys,
                           [p \in SearchProvider |-> DefaultMaxResults])
    /\ constructed = configs
    /\ PROVIDERS = "shipped"
    /\ Idle

\* SearchManager.__init__ in the listed environments and in the one that
\* sets every key variable to the empty string
InitDirect ==
    /\ default_provider \in {DUCKDUCKGO, TAVILY}
    /\ \E keys \in Environments \cup {[p \in SearchProvider |-> Some("")]} :
          /\ environ = keys
          /\ configs = load_all_provider_configs(keys,
                           [p \in SearchProvider |-> DefaultMaxResults])
    /\ constructed = configs
    /\ PROVIDERS \in {"shipped", "substituted"}
    /\ Idle

\* one caller of search, with any provider, any integer override and any
\* payload
NextDirect ==
    \/ Direct(\E p \in AllTargets, n \in WideOverrides : Search("c1", "q1", p, n))
    \/ Direct(\E net \in Payloads : NetworkEvent("c1", 1, net))
    \/ Direct(ResumeSearch)

SpecDirect == InitDirect /\ [][NextDirect]_vars

\* server.py line 15: the module's manager, whose default is duckduckgo
InitTools ==
    /\ default_provider = DUCKDUCKGO
    /\ \E keys \in Environments :
          /\ environ = keys
          /\ configs = load_all_provider_configs(keys,
                           [p \in SearchProvider |-> DefaultMaxResults])
    /\ constructed = configs
    /\ PROVIDERS \in {"shipped", "substituted"}
    /\ Idle

\* lists of names a client sends to the multi_provider_search tool
\* (None: the argument is not given)
ToolProviderLists ==
    {None, Some(<<>>), Some(<<"bing">>), Some(<<"SerpAPI", "bing", "duckduckgo">>)}

\* one client of the server's tools; it leaves max_results_per_provider at
\* its default when it leaves providers at its default
NextTools ==
    \/ \E mgr \in Managers, p \in ToolProviderNames, n \in ToolInts :
          ToolSearchWeb("c1", mgr, "q1", p, n)
    \/ \E mgr \in Managers, n \in ToolInts : ToolSearchWithFallback("c1", mgr, "q1", n)
    \/ \E mgr \in Managers, ps \in ToolProviderLists :
          \E n \in IF ps = None THEN {DefaultPerProvider} ELSE ToolInts :
             ToolMultiProviderSearch("c1", mgr, "q1", ps, n)
    \/ \E mgr \in Managers : ToolGetAvailableProviders("c1", mgr)
    \/ InTool(\E s \in 1..5, net \in NetOutcomes : NetworkEvent("c1", s, net))
    \/ InTool(ResumeSearch)
    \/ InTool(ResumeFallback)
    \/ InTool(StartTask)
    \/ InTool(ResumeTask)
    \/ InTool(Gathered)

SpecTools == InitTools /\ [][NextTools]_vars

\* SearchManager.__init__ with any default provider, in any environment, over
\* the shipped provider classes or over substitutes
InitChain ==
    /\ default_provider \in SearchProvider
    /\ \E keys \in [SearchProvider -> ApiKeyValues] :
          /\ environ = keys
          /\ configs = load_all_provider_configs(keys,
                           [p \in SearchProvider |-> DefaultMaxResults])
    /\ constructed = configs
    /\ PROVIDERS \in {"shipped", "substituted"}
    /\ Idle

\* the fallback chain and one search_with_fallback call in any manager
NextChain ==
    \/ Direct(GetFallbackChain)
    \/ Direct(SearchWithFallback("c1", "q1", 5))
    \/ Direct(\E s \in 1..5, net \in NetOutcomes : NetworkEvent("c1", s, net))
    \/ Direct(ResumeFallback)

SpecChain == InitChain /\ [][NextChain]_vars

\* SearchManager.__init__ with every key set
InitLive ==
    /\ default_provider = DUCKDUCKGO
    /\ environ = [p \in SearchProvider |-> IF p = DUCKDUCKGO THEN None ELSE Some("k")]
    /\ configs = load_all_provider_configs(environ,
                     [p \in SearchProvider |-> DefaultMaxResults])
    /\ constructed = configs
    /\ PROVIDERS \in {"shipped", "substituted"}
    /\ Idle

\* one caller, of search_with_fallback and of multi_provider_search in turn
LiveFallback == Direct(SearchWithFallback("c1", "q1", 5))
LiveMulti ==
    Direct(\E ps \in SeqUpTo(ListedProviders, MaxProviders) :
              MultiProviderSearch("c1", "q1", ps, DefaultPerProvider))

NextLive ==
    \/ LiveFallback
    \/ LiveMulti
    \/ Network
    \/ Direct(ResumeFallback)
    \/ Direct(StartTask)
    \/ Direct(ResumeTask)
    \/ Direct(Gathered)

\* every provider call eventually returns or raises (each outbound request
\* is answered), and the event loop runs every callback it has queued
Fairness ==
    /\ \A c \in Callers, s \in 1..5 :
          WF_vars(Direct(\E net \in NetOutcomes : NetworkEvent(c, s, net)))
    /\ WF_vars(Direct(ResumeFallback))
    /\ WF_vars(Direct(StartTask))
    /\ WF_vars(Direct(ResumeTask))
    /\ WF_vars(Direct(Gathered))

SpecLive == InitLive /\ [][NextLive]_vars /\ Fairness

\* the get_available_providers tool over a manager of any default provider
\* in any environment
NextStatus == \E mgr \in Managers : ToolGetAvailableProviders("c1", mgr)

SpecStatus == InitConfig /\ [][NextStatus]_vars

\* two clients of the search_web tool whose tasks can be cancelled while the
\* manager's search is suspended
NextCancel ==
    \/ \E c \in Callers, mgr \in Managers, p \in ToolProviderNames, n \in ToolInts :
          ToolSearchWeb(c, mgr, "q1", p, n)
    \/ InTool(\E c \in Callers, net \in NetOutcomes : NetworkEvent(c, 1, net))
    \/ InTool(ResumeSearch)
    \/ InTool(\E c \in Callers : Cancel(c))

SpecCancel == InitTools /\ [][NextCancel]_vars

\* spellings of provider names that differ in letter case only, and of a
\* name that is no provider
CaseNames ==
    {"duckduckgo", "DuckDuckGo", "DUCKDUCKGO", "serpapi", "SerpAPI", "bing", "Bing"}

\* two clients of the search_web and multi_provider_search tools, each
\* naming one provider
NextNames ==
    \/ \E c \in Callers, p \in CaseNames :
          ToolSearchWeb(c, "manager", "q1", p, DefaultPerProvider)
    \/ \E c \in Callers, p \in CaseNames :
          ToolMultiProviderSearch(c, "manager", "q1", Some(<<p>>), DefaultPerProvider)
    \/ InTool(\E c \in Callers, net \in NetOutcomes : NetworkEvent(c, 1, net))
    \/ InTool(ResumeSearch)
    \/ InTool(StartTask)
    \/ InTool(ResumeTask)
    \/ InTool(Gathered)

SpecNames == InitTools /\ [][NextNames]_vars

\* mutant of Setenv: the manager's table follows the environment
SetenvReloads(name, value) ==
    /\ environ' = [environ EXCEPT ![name] = value]
    /\ configs' = load_all_provider_configs(environ',
                       [p \in SearchProvider |-> DefaultMaxResults])
    /\ UNCHANGED <<default_provider, constructed, PROVIDERS, available,
                   fallback_chain, call, ready, tool, settings, clock>>

\* the process's environment changes after the manager was constructed: the
\* API-key variable of provider `name` is set to a string, or removed (None)
Setenv(name, value) ==
    /\ environ' = [environ EXCEPT ![name] = value]
    /\ UNCHANGED <<default_provider, configs, constructed, PROVIDERS, available,
                   fallback_chain, call, ready, tool, settings, clock>>

\* a manager in use while the environment of its process changes
NextEnviron ==
    \/ \E name \in {SERPAPI, TAVILY}, value \in ApiKeyValues : Setenv(name, value)
    \/ Direct(GetAvailableProviders)
    \/ Direct(GetFallbackChain)
    \/ Direct(\E p \in SearchTargets, n \in {None, Some(5)} : Search("c1", "q1", p, n))
    \/ Direct(\E net \in NetOutcomes : NetworkEvent("c1", 1, net))
    \/ Direct(ResumeSearch)

SpecEnviron == Init /\ [][NextEnviron]_vars

\* configurations constructed from keyword arguments and from the environment
NextSettings ==
    \/ \E p \in SearchProvider, k \in ApiKeyValues, m \in EnvMaxResults,
          t \in EnvTimeouts : LoadConfigFromEnvironment(p, k, m, t)
    \/ \E m \in CtorMaxResults, t \in CtorTimeouts : NewConfig(m, t)
    \/ \E ps \in RequestedProviders, keys \in Environments,
          m \in EnvMaxResultsByProvider, t \in {None, Some(<<"4", "5">>), Some(<<"3", "0", "1">>)} :
          LoadAllProviderConfigs(ps, keys, m, t)

\* a process that has constructed its manager in an environment without keys
InitSettings ==
    /\ default_provider = DUCKDUCKGO
    /\ environ = [p \in SearchProvider |-> None]
    /\ configs = load_all_provider_configs(environ,
                                           [p \in SearchProvider |-> DefaultMaxResults])
    /\ constructed = configs
    /\ PROVIDERS = "shipped"
    /\ Idle

SpecSettings == InitSettings /\ [][NextSettings]_vars

NextConfig == Direct(GetAvailableProviders) \/ Direct(GetFallbackChain)

SpecConfig == InitConfig /\ [][NextConfig]_vars

\* ========================================================================
\* Properties
\* ========================================================================
InFlight(s) == s.pc \in {"awaiting", "woken"}

FallbackCalls == {c \in Callers : call[c].kind = "fallback"}

\* the providers a call has invoked search on, in invocation order
Invoked(f) == [i \in 1..Len(f.searches) |-> f.searches[i].provider]

\* C1: Fallback short-circuit.  In a search_with_fallback call, a candidate
\* whose search succeeded is the first of the chain to succeed (every
\* candidate before it was tried and raised), the call returns exactly that
\* candidate's response, and no candidate after it in the chain is ever
\* invoked.
FallbackShortCircuit ==
    \A c \in FallbackCalls :
       LET f == call[c]
       IN  \A i \in 1..Len(f.searches) :
              f.searches[i].pc = "returned" =>
                 /\ f.searches[i].provider = f.chain[i]
                 /\ \A j \in 1..(i - 1) :
                       f.searches[j].provider = f.chain[j] /\ f.searches[j].pc = "raised"
                 /\ f.pc = "returned"
                 /\ f.result = f.searches[i].response
                 /\ \A k \in (i + 1)..Len(f.chain) :
                       \A j \in 1..Len(f.searches) : f.searches[j].provider # f.chain[k]

\* a call over a chain of three or more whose first candidate raised and
\* whose second succeeded
FallbackShortCircuitWitness ==
    \E c \in FallbackCalls :
       /\ Len(call[c].chain) >= 3
       /\ Len(call[c].searches) = 2
       /\ call[c].searches[1].pc = "raised"
       /\ call[c].searches[2].pc = "returned"
       /\ call[c].pc = "returned"

SequentialFallback ==
    \A c \in FallbackCalls :
       LET f == call[c]
           n == Len(f.searches)
       IN  /\ n <= Len(f.chain)
           /\ \A i \in 1..n : f.searches[i].provider = f.chain[i]
           /\ \A i \in 1..(n - 1) : f.searches[i].pc = "raised"
           /\ \A i, j \in 1..n : i # j => f.searches[i].provider # f.searches[j].provider
           /\ Cardinality({i \in 1..n : InFlight(f.searches[i])}) <= 1

\* the third candidate is in flight after the first two raised
SequentialFallbackWitness ==
    \E c \in FallbackCalls :
       /\ Len(call[c].searches) = 3
       /\ call[c].searches[1].pc = "raised"
       /\ call[c].searches[2].pc = "raised"
       /\ InFlight(call[c].searches[3])

MultiCalls == {c \in Callers : call[c].kind = "multi"}

\* keys of a dict, and the value under a key
Keys(d) == {d[i][1] : i \in 1..Len(d)}
Value(d, k) == d[CHOOSE i \in 1..Len(d) : d[i][1] = k][2]

Requested(m) == {m.providers[i] : i \in 1..Len(m.providers)}

\* the search task i of a multi_provider_search call ran
SearchOf(m, i) == m.searches[m.tasks[i].sid]

EntryFor(m, i) ==
    IF SearchOf(m, i).pc = "raised"
    THEN [ query    |-> m.query,
           provider |-> m.providers[i],
           results  |-> <<>>,
           metadata |-> [error |-> Some(Get(SearchOf(m, i).error).msg),
                         attempted_providers |-> None] ]
    ELSE Get(SearchOf(m, i).response)

\* every search of the call ran to its end, none was cancelled
AllFinished(m) ==
    \A i \in 1..Len(m.tasks) :
       m.tasks[i].pc = "done" /\ SearchOf(m, i).pc \in {"returned", "raised"}

LastOccurrence(m, i) ==
    \A j \in (i + 1)..Len(m.providers) : m.providers[j] # m.providers[i]

AwaitedToCompletion(m, i) ==
    m.tasks[i].pc = "done" /\ SearchOf(m, i).requested

StartCallbacks(c) ==
    {k \in 1..Len(ready) : ready[k].kind = "start" /\ ready[k].caller = c}

WakeCallbacks(c) ==
    {k \in 1..Len(ready) : ready[k].kind = "wake" /\ ready[k].caller = c}

\* C5: Concurrent dispatch.  In multi_provider_search, once any search has
\* been awaited to completion every requested search has begun; and the
\* start of a search never waits for another search to finish: every task
\* that has not begun is on the loop, ahead of every wake-up of a search of
\* the call.
ConcurrentDispatch ==
    \A c \in MultiCalls :
       LET m == call[c]
       IN  /\ \A i \in 1..Len(m.tasks) :
                AwaitedToCompletion(m, i)
                   => \A j \in 1..Len(m.tasks) : m.tasks[j].pc # "scheduled"
           /\ \A j \in 1..Len(m.tasks) :
                m.tasks[j].pc = "scheduled"
                   => \E k \in StartCallbacks(c) :
                         /\ ready[k].arg = j
                         /\ \A w \in WakeCallbacks(c) : k < w

\* of two or more searches one has been awaited to completion while another
\* is still in flight
ConcurrentDispatchWitness ==
    \E c \in MultiCalls :
       /\ Len(call[c].tasks) >= 2
       /\ \E i, j \in 1..Len(call[c].tasks) :
             /\ AwaitedToCompletion(call[c], i)
             /\ call[c].tasks[j].pc = "awaiting"
             /\ InFlight(SearchOf(call[c], j))

SearchCalls == {c \in Callers : call[c].kind = "search"}

\* C6: Stored configuration is never mutated.  After any sequence or
\* interleaving of search, search_with_fallback, multi_provider_search,
\* get_available_providers and get_fallback_chain calls, every stored
\* configuration equals, field by field, its value right after construction.
StoredConfigNeverMutated ==
    \A p \in SearchProvider :
       /\ configs[p].max_results = constructed[p].max_results
       /\ configs[p].api_key = constructed[p].api_key
       /\ configs[p].timeout = constructed[p].timeout
       /\ configs[p].provider = constructed[p].provider

\* both status operations have been called, and searches of a
\* search_with_fallback or multi_provider_search call and of a plain search
\* call have been bound to configurations whose max_results was overridden
StoredConfigNeverMutatedWitness ==
    /\ available # None
    /\ fallback_chain # None
    /\ call["c1"].kind \in {"fallback", "multi"}
    /\ call["c2"].kind = "search"
    /\ \A c \in Callers :
          \E i \in 1..Len(call[c].searches) :
             LET s == call[c].searches[i]
             IN  s.config.max_results # constructed[s.provider].max_results

\* the max_results a search call is to run with: its override when one is
\* applied (line 67), else the constructed configuration's
OwnMaxResults(c) ==
    IF BoolInt(call[c].max_results) THEN Get(call[c].max_results)
    ELSE constructed[call[c].searches[1].provider].max_results

PriorityOrder == <<"duckduckgo", "serpapi", "perplexity", "tavily", "claude">>

Rank(p) == CHOOSE i \in 1..Len(PriorityOrder) : PriorityOrder[i] = p

Availability ==
    available # None =>
       LET status == Get(available)
       IN  /\ DOMAIN status = {"serpapi", "perplexity", "duckduckgo", "tavily", "claude"}
           /\ status["duckduckgo"] = TRUE
           /\ \A p \in DOMAIN status \ {"duckduckgo"} :
                 status[p] <=> (configs[p].api_key # None /\ configs[p].api_key # Some(""))

\* a status over an absent key, an empty key and a key
AvailabilityWitness ==
    /\ available # None
    /\ configs[SERPAPI].api_key = None
    /\ configs[TAVILY].api_key = Some("")
    /\ configs[CLAUDE].api_key = Some("k")
    /\ ~Get(available)[SERPAPI] /\ ~Get(available)[TAVILY] /\ Get(available)[CLAUDE]

\* the error the provider capability of search s raised
CapabilityError(s) ==
    IF s.requested THEN TransportError(Get(s.net)) ELSE StartError(PROVIDERS, s.config)

\* C11: Single-provider search lets errors through.  A search call runs one
\* search, on the identity it resolved; when the provider capability raised,
\* the call has raised to its caller the very error the capability raised,
\* it has returned nothing, and it has made no other attempt.
SearchPropagatesErrors ==
    \A c \in SearchCalls :
       LET s == call[c].searches[1]
       IN  /\ Len(call[c].searches) = 1
           /\ s.pc = "returned" =>
                 ~CapabilityRaises(PROVIDERS, s.config, Get(s.net))
           /\ s.pc = "raised" =>
                 /\ call[c].pc = "raised"
                 /\ call[c].result = None
                 /\ call[c].error = Some(CapabilityError(s))

\* one search call has raised the transport error of its request, another
\* the error its provider raised before any request
SearchPropagatesErrorsWitness ==
    /\ call["c1"].kind = "search" /\ call["c2"].kind = "search"
    /\ call["c1"].pc = "raised" /\ call["c1"].searches[1].requested
    /\ Get(call["c1"].error).type = "Exception"
    /\ call["c2"].pc = "raised" /\ ~call["c2"].searches[1].requested

\* the call ran off its chain: every candidate was attempted and raised
Exhausted(f) ==
    /\ f.pc = "returned"
    /\ Len(f.searches) = Len(f.chain)
    /\ \A i \in 1..Len(f.searches) : f.searches[i].pc = "raised"

\* C12: For every configured default provider, the response
\* search_with_fallback returns when the chain is exhausted has its provider
\* field set to the manager's default provider.
ExhaustedProviderIsDefault ==
    \A c \in FallbackCalls :
       Exhausted(call[c]) => Get(call[c].result).provider = default_provider

\* the searches a caller's call has entered
SearchesOf(c) == {call[c].searches[i] : i \in 1..Len(call[c].searches)}

Finished(s) == s.pc \in {"returned", "raised"}

\* C13: Resource release.  The client a search opened is closed once that
\* search has returned or raised, on the success path and on the error
\* path alike; a call that has returned or raised has left no client open,
\* and when no call is in flight no client is open at all.
ClientsReleased ==
    /\ \A c \in Callers :
          /\ \A s \in SearchesOf(c) : Finished(s) => s.client = "closed"
          /\ call[c].pc \in {"returned", "raised"} =>
                \A s \in SearchesOf(c) : s.client = "closed"
    /\ (\A c \in Callers : call[c].pc # "awaiting") =>
          \A c \in Callers : \A s \in SearchesOf(c) : s.client = "closed"

\* both callers have finished: one a multi_provider_search in which a
\* search raised and another returned after its request, the other a search
\* that raised
ClientsReleasedWitness ==
    /\ call["c1"].kind = "multi" /\ call["c1"].pc = "returned"
    /\ \E s, t \in SearchesOf("c1") :
          s.pc = "raised" /\ t.pc = "returned" /\ t.requested
    /\ call["c2"].kind = "search" /\ call["c2"].pc = "raised"
    /\ ready = <<>>

\* the integers the environment strings of the model write
Written ==
    { <<<<"0">>, 0>>, <<<<"1">>, 1>>, <<<<"2", "0">>, 20>>, <<<<"4", "5">>, 45>>,
      <<<<"1", "0", "0">>, 100>>, <<<<"1", "0", "1">>, 101>>, <<<<"3", "0", "0">>, 300>>,
      <<<<"3", "0", "1">>, 301>>, <<<<"5", "0", "0">>, 500>>, <<<<"-", "5">>, 0 - 5>> }

\* the integer a construction was given for a field: the keyword argument,
\* or the integer the environment string writes; the empty set when the
\* string writes none
Given(op, v) ==
    IF op = "Config" THEN {v} ELSE {w[2] : w \in {x \in Written : x[1] = v}}

\* a supplied value (None: not supplied) is acceptable for a field with
\* bounds lo..hi
Acceptable(op, supplied, lo, hi) ==
    supplied = None \/ \E n \in Given(op, Get(supplied)) : lo <= n /\ n <= hi

\* the value the field of a successfully constructed instance must hold
Expected(op, supplied, default) ==
    IF supplied = None THEN {default} ELSE Given(op, Get(supplied))

InBounds(config) ==
    /\ 1 <= config.max_results /\ config.max_results <= 100
    /\ 1 <= config.timeout /\ config.timeout <= 300

\* C15: Bounds invariant on every instance.  Every configuration instance
\* of the program, the stored ones and the request-scoped copy search binds
\* to a provider after applying a max_results override, has max_results in
\* 1..100 and timeout in 1..300, whatever integer override the caller
\* passed.
BoundsOnEveryInstance ==
    /\ \A p \in SearchProvider : InBounds(configs[p])
    /\ \A c \in Callers : \A s \in SearchesOf(c) : InBounds(s.config)

\* the first n elements of a sequence, by definition
FirstN(seq, n) == [i \in 1..n |-> seq[i]]

\* C16: Truncation.  For every provider and every backend payload, the
\* results of the response a search returns number at most the max_results
\* its provider was bound to, and when the provider parsed more raw results
\* than that out of the payload, they are exactly the first max_results of
\* them, in their order.
TruncationToMaxResults ==
    \A c \in Callers : \A s \in SearchesOf(c) :
       (s.pc = "returned" /\ Get(s.net) # "timeout") =>
          LET results == Get(s.response).results
              raw     == Parsed(s.config, Get(s.net))
              n       == s.config.max_results
          IN  /\ Len(results) <= n
              /\ Len(raw) > n => results = FirstN(raw, n)

KeyedProviders == {"serpapi", "perplexity", "tavily", "claude"}

\* the text of the error each keyed provider raises for a missing key
RequiresKeyText ==
    [ serpapi    |-> "SerpAPI requires an API key",
      perplexity |-> "Perplexity API requires an API key",
      tavily     |-> "Tavily API requires an API key",
      claude     |-> "Claude API requires an API key" ]

\* C17: Credential precondition.  With the shipped providers, a search on
\* serpapi, perplexity, tavily or claude whose configuration has an absent
\* or empty api_key has raised a ValueError without ever issuing an
\* outbound request, and the search call has raised that error to its
\* caller.
CredentialPrecondition ==
    PROVIDERS = "shipped" =>
       \A c \in SearchCalls :
          LET s == call[c].searches[1]
          IN  ( /\ s.provider \in KeyedProviders
                /\ s.config.api_key \in {None, Some("")} )
              => /\ s.pc = "raised"
                 /\ ~s.requested
                 /\ s.net = None
                 /\ call[c].pc = "raised"
                 /\ call[c].result = None
                 /\ call[c].error = Some([type |-> "ValueError",
                                          msg  |-> RequiresKeyText[s.provider]])

\* a search on perplexity, whose key variable is set to the empty string,
\* has raised
CredentialPreconditionWitness ==
    /\ PROVIDERS = "shipped"
    /\ call["c1"].kind = "search"
    /\ call["c1"].searches[1].provider = PERPLEXITY
    /\ call["c1"].searches[1].config.api_key = Some("")
    /\ call["c1"].pc = "raised"

\* C18: Transport failures are surfaced.  For every provider, a search call
\* whose backend request failed has raised to its caller; it has not
\* returned a response.
TransportFailuresSurfaced ==
    \A c \in SearchCalls :
       LET s == call[c].searches[1]
       IN  (s.net = Some("timeout") /\ Finished(s)) =>
              /\ call[c].pc = "raised"
              /\ call[c].result = None

\* the keys of the dict a tool returned
ResultKeys(t) == DOMAIN Get(t.result)

ClampingAtSurface ==
    \A c \in Callers :
       LET t == tool[c]
       IN  /\ (t.invoked /\ t.name \in {"search_web", "search_with_fallback"}) =>
                 call[c].max_results = Some(Min(Max(t.args.max_results, 1), 50))
           /\ (t.invoked /\ t.name = "multi_provider_search") =>
                 call[c].max_results
                    = Some(Min(Max(t.args.max_results_per_provider, 1), 20))
           /\ (t.invoked /\ t.name # "get_available_providers") =>
                 \A s \in SearchesOf(c) : s.max_results = call[c].max_results

\* the multi_provider_search tool was given 21, a value the other tools
\* would pass on, and a provider of the manager's call is bound to 20
ClampingAtSurfaceWitness ==
    /\ tool["c1"].name = "multi_provider_search"
    /\ tool["c1"].args.max_results_per_provider = 21
    /\ call["c1"].kind = "multi"
    /\ call["c1"].searches # <<>>
    /\ call["c1"].searches[1].config.max_results = 20

\* the tools that have ended with a failure result: a dict with an error key
Failed(t) == t.pc = "returned" /\ "error" \in ResultKeys(t)

\* C21: Failure shape of the search tool.  Every failure result of
\* search_web, the one for an unrecognized provider name included, contains
\* the keys error, query and provider; and for an unrecognized name the
\* manager's search is never invoked.
SearchWebFailureShape ==
    \A c \in Callers :
       LET t == tool[c]
       IN  t.name = "search_web" =>
              /\ Failed(t) => {"error", "query", "provider"} \subseteq ResultKeys(t)
              /\ InvalidProvider(t.args.provider) =>
                    ~t.invoked /\ call[c].kind = "idle"

\* the tool's manager is missing (search_manager patched to None): its
\* result is the error dict of the AttributeError
ManagerMissing(t) ==
    t.pc = "returned" /\ Get(t.result) = ErrorResult(t, NoManagerError(t.name))

\* the identities a list of names recognizes, in the order of the list
RECURSIVE Recognized(_)
Recognized(names) ==
    IF names = <<>> THEN <<>>
    ELSE IF Lower(Head(names)) \in SearchProvider
    THEN <<Lower(Head(names))>> \o Recognized(Tail(names))
    ELSE Recognized(Tail(names))

\* C22: Name filtering in the multi_provider_search tool.  Unrecognized
\* names are dropped without error and the manager is called with exactly
\* the recognized names of the request, in request order; the tool returns
\* an error result without calling the manager if and only if no requested
\* name is recognized; and when the providers argument is absent the manager
\* is called with all five identities.  (Stated for a server whose
\* search_manager is a manager.)
MultiNameFiltering ==
    \A c \in Callers :
       LET t == tool[c]
       IN  (t.name = "multi_provider_search" /\ ~ManagerMissing(t)) =>
              /\ t.args.providers # None =>
                    /\ t.invoked => /\ call[c].kind = "multi"
                                    /\ call[c].providers = Recognized(Get(t.args.providers))
                    /\ (Failed(t) /\ ~t.invoked)
                          <=> Recognized(Get(t.args.providers)) = <<>>
              /\ t.args.providers = None =>
                    /\ t.invoked
                    /\ call[c].kind = "multi"
                    /\ call[c].providers = SearchProviderMembers
                    /\ Len(call[c].providers) = 5

\* the tool was given SerpAPI, bing and duckduckgo, and the manager was
\* called with serpapi and duckduckgo
MultiNameFilteringWitness ==
    /\ tool["c1"].name = "multi_provider_search"
    /\ tool["c1"].args.providers = Some(<<"SerpAPI", "bing", "duckduckgo">>)
    /\ tool["c1"].invoked
    /\ call["c1"].kind = "multi"
    /\ call["c1"].providers = <<SERPAPI, DUCKDUCKGO>>

\* the tools that take provider names
NamingTools == {"search_web", "multi_provider_search"}

\* the provider name a tool of NextNames was given
NameGiven(t) ==
    IF t.name = "search_web" THEN t.args.provider ELSE Get(t.args.providers)[1]

\* the identities the manager was called with by the tool of caller c
IdentitiesReached(c) ==
    IF call[c].kind = "search" THEN <<call[c].searches[1].provider>>
    ELSE call[c].providers

\* two names differ in the case of their letters at most
SameButCase(a, b) == LowerSeq(Spelling[a]) = LowerSeq(Spelling[b])

\* C23: Case-insensitive lookup.  Two requests to the search_web and
\* multi_provider_search tools whose provider names differ only in letter
\* case (in particular a name and its lower-cased form) are resolved alike:
\* both are rejected without a call on the manager, or both reach the
\* manager with the same identity.
CaseInsensitiveLookup ==
    \A c \in Callers : \A d \in Callers :
       LET t == tool[c]
           u == tool[d]
       IN  ( /\ t.name \in NamingTools
             /\ u.name \in NamingTools
             /\ SameButCase(NameGiven(t), NameGiven(u)) )
           => /\ t.invoked <=> u.invoked
              /\ ~t.invoked => Failed(t) /\ call[c].kind = "idle"
              /\ t.invoked => IdentitiesReached(c) = IdentitiesReached(d)

\* search_web given DuckDuckGo and multi_provider_search given duckduckgo
\* have both called the manager with the identity duckduckgo
CaseInsensitiveLookupWitness ==
    /\ tool["c1"].name = "search_web"
    /\ tool["c1"].args.provider = "DuckDuckGo"
    /\ tool["c2"].name = "multi_provider_search"
    /\ tool["c2"].args.providers = Some(<<"duckduckgo">>)
    /\ tool["c1"].invoked
    /\ tool["c2"].invoked
    /\ IdentitiesReached("c1") = <<DUCKDUCKGO>>
    /\ IdentitiesReached("c2") = <<DUCKDUCKGO>>

\* C24: Empty API key equals unset.  For every keyed provider, the
\* configuration resolved with the API-key variable set to the empty string
\* has the api_key of the one resolved with the variable not set: it is
\* absent (None).
EmptyKeyIsUnset ==
    settings # None =>
       LET r == Get(settings)
       IN  ( /\ r.op = "load_config_from_environment"
             /\ r.provider \in KeyedProviders
             /\ r.supplied.api_key \in {None, Some("")}
             /\ r.result.outcome = "ok" )
           => Get(r.result.config).api_key = None

\* the elements of a sequence
Range(seq) == {seq[i] : i \in 1..Len(seq)}

\* the identities a call of load_all_provider_configs asks for
RequestedIdentities(providers) ==
    IF providers = None THEN SearchProvider ELSE Range(Get(providers))

\* C25: Resolution completeness.  load_all_provider_configs returns a
\* mapping with exactly one configuration for each requested identity and
\* for no other identity (all five identities when none are requested), each
\* the configuration of its identity's class; and resolution fails only
\* for a numeric variable of a requested provider that is not acceptable,
\* never for a missing API key.
ResolutionCompleteness ==
    settings # None =>
       LET r   == Get(settings)
           req == RequestedIdentities(r.providers)
       IN  r.op = "load_all_provider_configs" =>
              /\ r.result.outcome = "ok" <=>
                    \A p \in req :
                       /\ Acceptable(r.op, r.supplied.max_results[p], 1, 100)
                       /\ Acceptable(r.op, r.supplied.timeout, 1, 300)
              /\ r.result.outcome = "ok" =>
                    LET pairs == Get(r.result.configs)
                    IN  /\ {pairs[i][1] : i \in 1..Len(pairs)} = req
                        /\ Len(pairs) = Cardinality(req)
                        /\ r.providers = None => Len(pairs) = 5
                        /\ \A i \in 1..Len(pairs) :
                              /\ pairs[i][2].provider = pairs[i][1]
                              /\ pairs[i][2].api_key = 
                                    (IF pairs[i][1] = DUCKDUCKGO THEN None
                                     ELSE r.supplied.api_key[pairs[i][1]])

\* serpapi and duckduckgo were requested in an environment without any API
\* key, and the mapping holds a configuration for both
ResolutionCompletenessWitness ==
    /\ settings # None
    /\ Get(settings).op = "load_all_provider_configs"
    /\ Get(settings).providers = Some(<<SERPAPI, DUCKDUCKGO>>)
    /\ Get(settings).supplied.api_key[SERPAPI] = None
    /\ Get(settings).result.outcome = "ok"
    /\ Len(Get(Get(settings).result.configs)) = 2

AllFailed(f) ==
    /\ Len(f.searches) >= Len(f.chain)
    /\ \A i \in 1..Len(f.searches) : f.searches[i].pc = "raised"

PartialFailure(m) ==
    /\ \E i \in 1..Len(m.providers) : SearchOf(m, i).pc = "raised"
    /\ \E i \in 1..Len(m.providers) : SearchOf(m, i).pc = "returned"

RECURSIVE SumLatency(_)
SumLatency(requests) ==
    IF requests = <<>> THEN 0
    ELSE requests[1].latency + SumLatency(Tail(requests))

MaxLatency(requests) ==
    IF requests = <<>> THEN 0
    ELSE LET all == {requests[i].latency : i \in 1..Len(requests)}
         IN  CHOOSE t \in all : \A u \in all : u <= t

\* the searches of the timed call that waited for a backend
Waited(requests) == {i \in 1..Len(requests) : requests[i].latency > 0}

\* C29: Concurrency timing.  The time multi_provider_search takes, from the
\* call to its return, is the time of the slowest of its providers and not
\* the sum of the providers' times: with two or more providers that wait for
\* their backend it is less than the sum, and two providers of 100 ms each
\* complete in 100 ms, under 150 ms.  (Time is what is spent waiting for
\* backends; latencies are 50, 100 or 200 ms, in units of 50 ms.)
ConcurrencyTiming ==
    clock.finished # None =>
       LET elapsed == Get(clock.finished) - Get(clock.started)
           reqs    == clock.requests
       IN  /\ elapsed = MaxLatency(reqs)
           /\ Cardinality(Waited(reqs)) >= 2 => elapsed < SumLatency(reqs)
           /\ ( /\ Len(reqs) = 2
                /\ reqs[1].latency = 2
                /\ reqs[2].latency = 2 ) => elapsed < 3

\* a call over two providers that waited 100 ms each has returned
ConcurrencyTimingWitness ==
    /\ clock.finished # None
    /\ call["c1"].pc = "returned"
    /\ Len(clock.requests) = 2
    /\ clock.requests[1].latency = 2
    /\ clock.requests[2].latency = 2
    /\ Get(clock.finished) - Get(clock.started) = 2

\* C30: Override is applied whenever given.  For every integer max_results
\* override passed to search, the configuration bound to the provider
\* instance has max_results equal to that override; when no override is
\* passed it has the stored configuration's max_results.
OverrideAppliedWheneverGiven ==
    \A c \in SearchCalls :
       LET s == call[c].searches[1]
       IN  s.config.max_results
              = IF call[c].max_results # None THEN Get(call[c].max_results)
                ELSE constructed[s.provider].max_results

\* the configuration search s is to be bound to: a copy of the constructed
\* one of its identity carrying its own override
OwnCopy(s) ==
    IF BoolInt(s.max_results)
    THEN [constructed[s.provider] EXCEPT !.max_results = Get(s.max_results)]
    ELSE constructed[s.provider]

\* C31: Exclusive ownership.  Every search constructs one provider instance
\* with a client and a configuration copy of its own: whatever other
\* searches are in flight, start or finish (those of other callers, the
\* per-provider searches of one multi_provider_search, searches for the
\* same identity), the client of a search in flight is open, closed by no
\* other search, its configuration is the copy made for it, changed by no
\* other search's override, and the stored table is no search's copy.
\* Each search call has one instance and each task of a
\* multi_provider_search its own.
ExclusiveOwnership ==
    /\ configs = constructed
    /\ \A c \in Callers :
          /\ \A s \in SearchesOf(c) :
                /\ InFlight(s) => s.client = "open"
                /\ s.config = OwnCopy(s)
          /\ call[c].kind = "search" => Len(call[c].searches) = 1
          /\ call[c].kind = "multi" =>
                \A i \in 1..Len(call[c].tasks) : \A j \in 1..Len(call[c].tasks) :
                   (i # j /\ call[c].tasks[i].sid # 0) =>
                      call[c].tasks[i].sid # call[c].tasks[j].sid

\* a multi_provider_search and a search of another caller overlap, both
\* with a search for serpapi: one search of the multi call has finished and
\* closed its client, while the other search of that call and the search
\* of the other caller, bound to a different max_results, are in flight
\* with their clients open
ExclusiveOwnershipWitness ==
    /\ call["c1"].kind = "multi"
    /\ call["c2"].kind = "search"
    /\ \E s, t \in SearchesOf("c1") :
          /\ Finished(s) /\ s.requested /\ s.client = "closed"
          /\ InFlight(t) /\ t.client = "open"
          /\ \E u \in SearchesOf("c2") :
                /\ InFlight(u) /\ u.client = "open"
                /\ u.provider = SERPAPI
                /\ (s.provider = SERPAPI \/ t.provider = SERPAPI)
                /\ u.config.max_results # t.config.max_results

CancellationPropagates ==
    \A c \in Callers :
       (tool[c].name = "search_web" /\ tool[c].invoked /\ call[c].pc = "raised") =>
          IF call[c].error = Some(CancelledError)
          THEN /\ tool[c].pc = "raised"
               /\ tool[c].error = Some(CancelledError)
               /\ tool[c].result = None
          ELSE /\ tool[c].pc = "returned"
               /\ "error" \in DOMAIN Get(tool[c].result)

\* one client's search_web was cancelled, the other's search failed
CancellationPropagatesWitness ==
    /\ tool["c1"].name = "search_web" /\ tool["c1"].pc = "raised"
    /\ call["c1"].error = Some(CancelledError)
    /\ call["c1"].searches[1].client = "closed"
    /\ tool["c2"].name = "search_web" /\ tool["c2"].pc = "returned"
    /\ call["c2"].pc = "raised"

RECURSIVE Distinct(_)
Distinct(ps) ==
    IF ps = <<>> THEN <<>>
    ELSE LET init == Distinct(SubSeq(ps, 1, Len(ps) - 1))
             last == ps[Len(ps)]
         IN  IF \E i \in 1..Len(init) : init[i] = last THEN init
             ELSE Append(init, last)

\* the position of the last occurrence of p in the list
LastIndex(ps, p) ==
    CHOOSE i \in 1..Len(ps) : ps[i] = p /\ \A j \in (i + 1)..Len(ps) : ps[j] # p

\* the entry the outcome of the provider call of list element i calls for:
\* the outcome is what the provider did before its request, or else what
\* the backend answered
OutcomeEntry(m, i) ==
    LET s == SearchOf(m, i)
        e == IF s.net = None THEN StartError(PROVIDERS, s.config)
             ELSE TransportError(Get(s.net))
    IN  IF s.net # None /\ ~CapabilityRaises(PROVIDERS, s.config, Get(s.net))
        THEN CapabilityResponse(s.config, m.query, Get(s.net))
        ELSE [ query    |-> m.query,
               provider |-> m.providers[i],
               results  |-> <<>>,
               metadata |-> [error |-> Some(e.msg), attempted_providers |-> None] ]

\* the searches of the call in the order their backends answered
AnsweredBefore(i, j) == clock.requests[i].due < clock.requests[j].due

\* C36: Completion-order independence.  Whatever the order in which the
\* provider calls of a multi_provider_search finish, one search is dispatched
\* per element of the request list, and the mapping returned is decided by
\* the outcomes of the calls alone: its keys are the requested identities in
\* request order (first occurrence), and the entry of each identity is the
\* one the outcome of its last occurrence in the list calls for.
CompletionOrderIndependence ==
    \A c \in MultiCalls :
       call[c].pc = "returned" =>
          LET m    == call[c]
              keys == Distinct(m.providers)
          IN  /\ Len(m.searches) = Len(m.providers)
              /\ \A i \in 1..Len(m.providers) :
                    /\ SearchOf(m, i).provider = m.providers[i]
                    /\ \A j \in 1..Len(m.providers) :
                          i # j => m.tasks[i].sid # m.tasks[j].sid
              /\ Get(m.results) =
                    [k \in 1..Len(keys) |->
                       <<keys[k], OutcomeEntry(m, LastIndex(m.providers, keys[k]))>>]

\* two calls on the same identity with different outcomes, the second
\* answered before the first: the entry retained is the second's
CompletionOrderIndependenceWitness ==
    /\ call["c1"].kind = "multi" /\ call["c1"].pc = "returned"
    /\ Len(call["c1"].providers) = 2
    /\ call["c1"].providers[1] = call["c1"].providers[2]
    /\ AnsweredBefore(call["c1"].tasks[2].sid, call["c1"].tasks[1].sid)
    /\ SearchOf(call["c1"], 1).pc = "returned"
    /\ SearchOf(call["c1"], 2).pc = "raised"
    /\ Len(Get(call["c1"].results)) = 1
    /\ Get(call["c1"].results)[1][2].metadata.error # None

\* the keys of a SearchResponse reported as a dict
SuccessKeys ==
    {"query", "provider", "total_results", "search_time", "results", "metadata"}

\* C37: the search_with_fallback tool reports the manager's all-providers-
\* failed response in the success shape: the six keys of a response, empty
\* results, the error inside metadata, and no top-level error key.  A
\* top-level error key appears only when the call on the manager did not
\* return a response.
FallbackToolExhaustedShape ==
    \A c \in Callers :
       LET t == tool[c]
       IN  (t.name = "search_with_fallback" /\ t.pc = "returned") =>
              /\ (t.invoked /\ call[c].pc = "returned") =>
                    /\ ResultKeys(t) = SuccessKeys
                    /\ Exhausted(call[c]) =>
                          /\ Get(t.result).results = <<>>
                          /\ Get(t.result).metadata.error # None
                          /\ Get(t.result).metadata = Get(call[c].result).metadata
              /\ "error" \in ResultKeys(t) => call[c].pc # "returned"

\* the tool has returned the response of a call in which two providers
\* failed one after the other
FallbackToolExhaustedShapeWitness ==
    /\ tool["c1"].name = "search_with_fallback"
    /\ tool["c1"].pc = "returned"
    /\ Exhausted(call["c1"])
    /\ Len(call["c1"].chain) = 2
    /\ ResultKeys(tool["c1"]) = SuccessKeys
    /\ Get(tool["c1"].result).total_results = None
    /\ Get(tool["c1"].result).metadata.attempted_providers
          = Some(<<"duckduckgo", "serpapi">>)

\* the attempts of a search_with_fallback call: one per chain member, in
\* chain order, none repeated
AttemptsBounded(f) ==
    /\ Len(f.chain) <= 5
    /\ Len(f.searches) <= Len(f.chain)
    /\ \A i \in 1..Len(f.searches) : f.searches[i].provider = f.chain[i]

\* a multi_provider_search call that has returned has run every requested
\* provider's call to its end
NoEarlyReturn(m) ==
    m.pc = "returned" =>
       /\ Len(m.searches) = Len(m.providers)
       /\ \A i \in 1..Len(m.tasks) : m.tasks[i].pc = "done"
       /\ \A i \in 1..Len(m.searches) : Finished(m.searches[i])

Awaiting(c, kind) == call[c].kind = kind /\ call[c].pc = "awaiting"
HasReturned(c, kind) == call[c].kind = kind /\ call[c].pc = "returned"

\* C38: Termination.  When every provider call eventually returns or
\* raises, search_with_fallback eventually returns, after at most one
\* attempt per member of the fallback chain (at most five), and
\* multi_provider_search eventually returns, and not before every requested
\* provider's call has finished.
Termination ==
    /\ [](\A c \in FallbackCalls : AttemptsBounded(call[c]))
    /\ [](\A c \in MultiCalls : NoEarlyReturn(call[c]))
    /\ \A c \in Callers : Awaiting(c, "fallback") ~> HasReturned(c, "fallback")
    /\ \A c \in Callers : Awaiting(c, "multi") ~> HasReturned(c, "multi")

\* search_with_fallback has returned after five attempts, each of which
\* waited for its backend before it failed
TerminationWitness ==
    /\ HasReturned("c1", "fallback")
    /\ Len(call["c1"].searches) = 5
    /\ \A i \in 1..5 : call["c1"].searches[i].net = Some("timeout")
    /\ Exhausted(call["c1"])

\* the names whose status in the providers entry of a result is true
TrueEntries(r) == {p \in DOMAIN r.providers : r.providers[p]}

\* C39: Consistency of the get_available_providers tool result.  In every
\* configuration state, fallback_chain lists, each once, exactly the names
\* whose status in providers is true; total_available is the number of true
\* entries and the length of fallback_chain; default_provider is the
\* manager's default identity.
StatusResultConsistent ==
    \A c \in Callers :
       LET t == tool[c]
       IN  (t.name = "get_available_providers" /\ t.pc = "returned"
               /\ "error" \notin ResultKeys(t)) =>
              LET r == Get(t.result)
              IN  /\ ResultKeys(t) = {"providers", "default_provider",
                                      "fallback_chain", "total_available"}
                  /\ {r.fallback_chain[i] : i \in 1..Len(r.fallback_chain)}
                        = TrueEntries(r)
                  /\ \A i, j \in 1..Len(r.fallback_chain) :
                        i # j => r.fallback_chain[i] # r.fallback_chain[j]
                  /\ r.total_available = Cardinality(TrueEntries(r))
                  /\ r.total_available = Len(r.fallback_chain)
                  /\ r.default_provider = default_provider
                  /\ r.providers = get_available_providers(configs)

\* the result for a manager whose default is tavily, with the keys of
\* perplexity and claude set and serpapi's empty
StatusResultConsistentWitness ==
    /\ tool["c1"].name = "get_available_providers"
    /\ tool["c1"].pc = "returned"
    /\ "error" \notin ResultKeys(tool["c1"])
    /\ default_provider = TAVILY
    /\ configs[SERPAPI].api_key = Some("")
    /\ Get(tool["c1"].result).total_available = 3
    /\ Get(tool["c1"].result).fallback_chain = <<DUCKDUCKGO, PERPLEXITY, CLAUDE>>
    /\ Get(tool["c1"].result).default_provider = TAVILY

====
